---- MODULE Spec2Model ----
(***************************************************************************)
(* zodfn (src/index.js): a fluent builder that wraps a function with       *)
(* argument/return schema validation and instrumentation (mock, spy,      *)
(* onError), producing a synchronous (create) or asynchronous             *)
(* (createAsync) callable.                                                *)
(*                                                                         *)
(* The model keeps the builder objects that own a _schemas record (heap), *)
(* the materialized callables with their options record (fns), the        *)
(* invocations that are executing or suspended at an await (calls) and    *)
(* the most recently completed call, as its caller sees it (last).         *)
(* JavaScript runs one                                                     *)
(* call stack at a time: an invocation that is `running` is the only      *)
(* thing that may step; it gives the processor up only at an await.       *)
(***************************************************************************)
EXTENDS Integers, Sequences, FiniteSets, TLC

(***************************************************************************)
(* Bounds of the model: calls are made while spyFnCount is below           *)
(* MaxSpyCount, or below MaxCounted where the counter itself is examined.  *)
(***************************************************************************)
MaxSpyCount == 1
MaxCounted == 2
\* The positions whose ordinal is examined are 1..MaxPosition.
MaxPosition == 130
\* At most MaxObjects objects are made from the root zfn.
MaxObjects == 3

(***************************************************************************)
(* JavaScript values, error objects and error messages.                    *)
(* A message is either plain text (a sequence of fragments) or the JSON    *)
(* text of an issue list, which is what JSON.parse can read back.          *)
(***************************************************************************)
Undefined == [t |-> "undefined", n |-> 0]
Num(k) == [t |-> "number", n |-> k]

Text(toks) == [json |-> FALSE, issues |-> <<>>, text |-> toks]
Json(issues) == [json |-> TRUE, issues |-> issues, text |-> <<>>]
Err(name, message) == [name |-> name, message |-> message]
NoErr == Err("", Text(<<>>))

ZodFnError(message) == Err("ZodFnError", message)

Ok(v) == [ok |-> TRUE, out |-> v, error |-> NoErr]
Fail(e) == [ok |-> FALSE, out |-> Undefined, error |-> e]

\* (variant: the suffix follows the last digit alone)
getOrdinalSuffixByLastDigit(num) ==
    LET j == num % 10
    IN  IF j = 1 THEN "st"
        ELSE IF j = 2 THEN "nd"
        ELSE IF j = 3 THEN "rd"
        ELSE "th"

getOrdinalSuffix(num) ==
    LET j == num % 10
        k == num % 100
    IN  IF j = 1 /\ k # 11 THEN "st"
        ELSE IF j = 2 /\ k # 12 THEN "nd"
        ELSE IF j = 3 /\ k # 13 THEN "rd"
        ELSE "th"

Digit(d) ==
    CASE d = 0 -> "0" [] d = 1 -> "1" [] d = 2 -> "2" [] d = 3 -> "3"
      [] d = 4 -> "4" [] d = 5 -> "5" [] d = 6 -> "6" [] d = 7 -> "7"
      [] d = 8 -> "8" [] OTHER -> "9"

RECURSIVE NumStr(_)
NumStr(n) == IF n < 10 THEN <<Digit(n)>> ELSE NumStr(n \div 10) \o <<Digit(n % 10)>>

\* (variant: the replacement is left out)
ReplaceNothing(toks, from, to) == toks

RECURSIVE Replace(_, _, _)
Replace(toks, from, to) ==
    IF toks = <<>> THEN <<>>
    ELSE IF Head(toks) = from THEN <<to>> \o Tail(toks)
    ELSE <<Head(toks)>> \o Replace(Tail(toks), from, to)

RECURSIVE JoinPath(_)
JoinPath(path) ==
    IF path = <<>> THEN <<>>
    ELSE IF Len(path) = 1 THEN path
    ELSE <<Head(path), ".">> \o JoinPath(Tail(path))

\* (variant: the label counts positions from 0)
ArgLabelFromZero(position) ==
    <<"Validation failed for ">> \o NumStr(position - 1)
        \o <<getOrdinalSuffix(position - 1), " argument">>

ArgLabel(position) ==
    <<"Validation failed for ">> \o NumStr(position)
        \o <<getOrdinalSuffix(position), " argument">>

ReturnLabel == <<"Validation failed for return value">>

\* The throwError closure of argValidation and returnValidation: the
\* ZodFnError made from a validator error, `label` being the position part.
throwError(error, label) ==
    LET m == error.message
    IN  IF ~m.json
        THEN ZodFnError(Text(Replace(m.text, "parseAsync()", "createAsync()")))
        ELSE IF m.issues # <<>> /\ m.issues[1].message # <<>>
        THEN LET path == JoinPath(m.issues[1].path)
                 msg == label
                          \o (IF path # <<>> THEN <<" - Path: ">> \o path ELSE <<>>)
                          \o <<" - ">> \o m.issues[1].message
             IN  ZodFnError(Text(Replace(msg, "parseAsync()", "createAsync()")))
        ELSE ZodFnError(m)

(***************************************************************************)
(* Schemas.  The validator library is outside the repository; the model    *)
(* uses three schemas of the kinds the tests use:                          *)
(*   "num"    accepts the numbers >= 1 and returns them unchanged,         *)
(*   "inc"    accepts the same and transforms n to n + 1,                  *)
(*   "asyncT" accepts the same with an asynchronous transform to n + 1:    *)
(*            its synchronous parse meets a promise and throws.            *)
(***************************************************************************)
SchemaKinds == {"num", "inc", "asyncT"}
NoSchema == "undefined"

\* Objects that are not Zod schemas and have one of the two members only:
\* `{ parse() {} }`, and a hand-written validator `{ parseAsync }` that
\* rejects what it does not accept with an Error of a plain message.
ParseOnly == "parseOnly"
ParseAsyncOnly == "parseAsyncOnly"

\* typeof schema?.parse === "function", typeof schema?.parseAsync === "function"
HasParse(s) == s \in SchemaKinds \cup {ParseOnly}
HasParseAsync(s) == s \in SchemaKinds \cup {ParseAsyncOnly}

Valid(v) == v.t = "number" /\ v.n >= 1
InvalidIssue == [message |-> <<"Invalid input">>, path |-> <<>>]
ZodError == Err("ZodError", Json(<<InvalidIssue>>))
ZodAsyncError ==
    Err("$ZodAsyncError",
        Text(<<"Encountered Promise during synchronous parse. Use .",
               "parseAsync()", " instead.">>))
EscalationMessage ==
    Text(<<"Encountered Promise during synchronous parse. Use .",
           "createAsync()", " instead.">>)

\* What calling a member the schema does not have throws.
NotCallable(member) == Err("TypeError", Text(<<"schema.", member, " is not a function">>))
\* What the hand-written validator rejects with.
PlainError == Err("Error", Text(<<"Unsupported value">>))

\* schema.parse(v)
Parse(s, v) ==
    IF ~HasParse(s) THEN Fail(NotCallable("parse"))
    ELSE IF s = ParseOnly THEN Ok(Undefined)
    ELSE IF ~Valid(v) THEN Fail(ZodError)
    ELSE IF s = "num" THEN Ok(v)
    ELSE IF s = "inc" THEN Ok(Num(v.n + 1))
    ELSE Fail(ZodAsyncError)

\* await schema.parseAsync(v)
ParseAsync(s, v) ==
    IF ~HasParseAsync(s) THEN Fail(NotCallable("parseAsync"))
    ELSE IF s = ParseAsyncOnly THEN (IF Valid(v) THEN Ok(v) ELSE Fail(PlainError))
    ELSE IF ~Valid(v) THEN Fail(ZodError)
    ELSE IF s = "num" THEN Ok(v)
    ELSE Ok(Num(v.n + 1))

argValidation(arg, position, schema, isAsync) ==
    LET r == IF isAsync THEN ParseAsync(schema, arg) ELSE Parse(schema, arg)
    IN  IF r.ok THEN r ELSE Fail(throwError(r.error, ArgLabel(position)))

\* (variant: the return value is labelled as the first argument)
returnValidationAsArg(arg, schema, isAsync) ==
    IF schema = NoSchema THEN Ok(arg) ELSE argValidation(arg, 1, schema, isAsync)

returnValidation(arg, schema, isAsync) ==
    IF schema = NoSchema THEN Ok(arg)
    ELSE LET r == IF isAsync THEN ParseAsync(schema, arg) ELSE Parse(schema, arg)
         IN  IF r.ok THEN r ELSE Fail(throwError(r.error, ReturnLabel))

(***************************************************************************)
(* State.                                                                  *)
(***************************************************************************)
VARIABLES
    heap,    \* builder objects that own a _schemas record; 0 names the root zfn
    fns,     \* the callables made by create/createAsync, with their options
    calls,   \* the invocations in progress: executing or suspended at an await
    last     \* the call that has just completed, as its caller sees it: an
             \* invocation of a callable with what it did, or a call of the
             \* API with the object it returned or the error it threw
VARIABLE
    hist     \* history: the latest call a specification has noted, with the
             \* builders and the options as they were right before it

vars == <<heap, fns, calls, last, hist>>

\* Inputs: the argument-schema lists given to args(), the values passed to a
\* callable, and what an implementation, an error handler and a spy can do
\* on one call ("ret": return a plain value, "throw": throw, "pres"/"prej":
\* return a promise that resolves/rejects).
ArgSchemaLists ==
    {<<"inc">>, <<"num", "asyncT">>}
ReturnSchemas == {"inc", "asyncT"}
ArgValues == {Num(0), Num(1)}
ArgLists == {<<>>} \cup {<<v>> : v \in ArgValues} \cup {<<Num(1), v>> : v \in ArgValues}

ImplErr == Err("Error", Text(<<"Error message">>))
HandlerErr == Err("Error", Text(<<"onError Function Error message">>))
SpyErr == Err("Error", Text(<<"Spy Function Error message">>))

Outcome(how, val, err) == [how |-> how, val |-> val, err |-> err]
ImplOutcomes ==
    {Outcome(h, v, NoErr) : h \in {"ret", "pres"}, v \in {Num(0), Num(1)}}
        \cup {Outcome(h, Undefined, ImplErr) : h \in {"throw", "prej"}}
HandlerOutcomes ==
    {Outcome(h, v, NoErr) : h \in {"ret", "pres"}, v \in {Num(0), Num(1)}}
        \cup {Outcome(h, Undefined, HandlerErr) : h \in {"throw", "prej"}}
SpyOutcomes ==
    {Outcome(h, Undefined, NoErr) : h \in {"ret", "pres"}}
        \cup {Outcome(h, Undefined, SpyErr) : h \in {"throw", "prej"}}

IsPromise(o) == o.how \in {"pres", "prej"}

\* _schemas of a new builder instance
EmptySchemas(pub) == [args |-> <<>>, ret |-> NoSchema, pub |-> pub]

\* getBuilderInstance(obj): obj itself when it (or its prototype chain) has
\* _schemas, else a new object made from it.  HeapWith is the heap after
\* the call, BuilderRef the object returned.
\* (variant: the root keeps the object it made last and hands it out again)
BuilderRefLatest(b) == IF b # 0 THEN b ELSE IF heap = <<>> THEN 1 ELSE Len(heap)
BuilderRef(b) == IF b # 0 THEN b ELSE Len(heap) + 1
HeapWith(b, pub) == IF b # 0 THEN heap ELSE Append(heap, EmptySchemas(pub))

\* The builders the caller can hold: the root and what args/returns/build returned.
Builders == {0} \cup {b \in 1..Len(heap) : heap[b].pub}

\* (variant: the test reads the two members, parse and parseAsync)
IsSchemaEitherMember(s) == ~(~HasParse(s) /\ ~HasParseAsync(s))

\* The test of args() and returns(), negated: it throws when
\* typeof schema?.parseAsync !== "function" && typeof schema?.parseAsync !== "function"
IsSchema(s) == ~(~HasParseAsync(s) /\ ~HasParseAsync(s))

\* References to the objects a caller can hold.
BuilderObj(b) == [obj |-> "builder", id |-> b]
Callable(c) == [obj |-> "callable", id |-> c]
NoRef == [obj |-> "none", id |-> 0]

Idle ==
    [pc |-> "idle", c |-> 0, running |-> FALSE, branch |-> "sync",
     args |-> <<>>, parsedArgs |-> <<>>, ret |-> Undefined, error |-> NoErr,
     log |-> <<>>, leaked |-> <<>>, delivery |-> "", recv |-> NoRef, res |-> NoRef]

\* A call of a builder or instrumentation method on `recv`: `return res`
Returned(recv, res) ==
    [Idle EXCEPT !.pc = "api", !.delivery = "return", !.recv = recv, !.res = res]
\* and `throw new ZodFnError(message)`
Threw(recv, message) ==
    [Idle EXCEPT !.pc = "api", !.delivery = "throw", !.recv = recv,
                 !.error = ZodFnError(Text(message))]

\* One event of an invocation's log: the schema or function `fn` was called
\* at stage `ev` with value `in` (or error `errIn`), and returned `out` or
\* failed with `err`; `n` is the argument position, the number of arguments
\* passed on, or the spy counter.
Entry(ev, fn, in, out, n, how, err, errIn) ==
    [ev |-> ev, fn |-> fn, in |-> in, out |-> out, n |-> n, how |-> how,
     err |-> err, errIn |-> errIn, args |-> <<>>]
\* the entry of a call that was given the argument list `args`
Passed(e, args) == [e EXCEPT !.args = args]

NoneRunning == \A j \in DOMAIN calls : ~calls[j].running
\* (variant: a suspended invocation is never resumed)
CanRunIfRunning(k) == calls[k].running
CanRun(k) == calls[k].running \/ NoneRunning
InFlight(c) == Cardinality({j \in DOMAIN calls : calls[j].c = c})

Init ==
    /\ heap = <<>>
    /\ fns = <<>>
    /\ calls = <<>>
    /\ last = Idle
    /\ hist = [op |-> "", recv |-> NoRef, arg |-> "", heap |-> <<>>, fns |-> <<>>,
               calls |-> <<>>]

\* The call `recv.op(arg)` is noted in the history.
Note(op, recv, arg) ==
    hist' = [op |-> op, recv |-> recv, arg |-> arg, heap |-> heap, fns |-> fns,
             calls |-> calls]

(***************************************************************************)
(* Builder operations.                                                     *)
(***************************************************************************)
\* What a caller passes where a schema is expected and is not one.
NotASchema == "1"

\* (variant: the loop of args() runs from the last position down)
ArgsCheckFromLast(argSchemas) ==
    LET bad == {i \in 1..Len(argSchemas) : ~IsSchema(argSchemas[i])}
        i == CHOOSE j \in bad : \A l \in bad : j >= l
    IN  IF Len(argSchemas) = 0 THEN <<"Argument schemas not provided">>
        ELSE IF bad # {}
        THEN NumStr(i) \o <<getOrdinalSuffix(i), " argument must be a valid Zod schema">>
        ELSE <<>>

\* The checks of args() and returns(): the message thrown, <<>> when none.
ArgsCheck(argSchemas) ==
    LET bad == {i \in 1..Len(argSchemas) : ~IsSchema(argSchemas[i])}
        i == CHOOSE j \in bad : \A l \in bad : j <= l
    IN  IF Len(argSchemas) = 0 THEN <<"Argument schemas not provided">>
        ELSE IF bad # {}
        THEN NumStr(i) \o <<getOrdinalSuffix(i), " argument must be a valid Zod schema">>
        ELSE <<>>
ReturnsCheck(returnSchema) ==
    IF returnSchema = NoSchema THEN <<"Return schema not provided">>
    ELSE IF ~IsSchema(returnSchema) THEN <<"Return value must be a valid Zod schema">>
    ELSE <<>>

\* builder._schemas.args = argSchemas; builder._schemas.return = returnSchema
\* (variant: args() overwrites position by position)
SetArgsMerged(schemas, argSchemas) ==
    [schemas EXCEPT !.args =
        [i \in 1..(IF Len(@) > Len(argSchemas) THEN Len(@) ELSE Len(argSchemas)) |->
            IF i <= Len(argSchemas) THEN argSchemas[i] ELSE @[i]]]
SetArgs(schemas, argSchemas) == [schemas EXCEPT !.args = argSchemas]
SetReturns(schemas, returnSchema) == [schemas EXCEPT !.ret = returnSchema]

Args(b, argSchemas) ==
    /\ NoneRunning
    /\ b \in Builders
    /\ IF ArgsCheck(argSchemas) # <<>>
       THEN heap' = heap /\ last' = Threw(BuilderObj(b), ArgsCheck(argSchemas))
       ELSE /\ heap' = [HeapWith(b, TRUE) EXCEPT ![BuilderRef(b)] = SetArgs(@, argSchemas)]
            /\ last' = Returned(BuilderObj(b), BuilderObj(BuilderRef(b)))
    /\ UNCHANGED <<fns, calls>>

Returns(b, returnSchema) ==
    /\ NoneRunning
    /\ b \in Builders
    /\ IF ReturnsCheck(returnSchema) # <<>>
       THEN heap' = heap /\ last' = Threw(BuilderObj(b), ReturnsCheck(returnSchema))
       ELSE /\ heap' = [HeapWith(b, TRUE) EXCEPT ![BuilderRef(b)] = SetReturns(@, returnSchema)]
            /\ last' = Returned(BuilderObj(b), BuilderObj(BuilderRef(b)))
    /\ UNCHANGED <<fns, calls>>

\* What a caller passes to build(): nothing, a value that is not a function,
\* or a function, given by what it returns: a value that is not an object,
\* or an object whose keys `has` are set (to a truthy value).
BuildFn(t, obj, has, args, returns) ==
    [t |-> t, obj |-> obj, has |-> has, args |-> args, returns |-> returns]
BuildResult(has, args, returns) == BuildFn("function", TRUE, has, args, returns)
NoBuildFn == BuildFn("undefined", FALSE, {}, <<>>, NoSchema)
NotABuildFn == BuildFn("number", FALSE, {}, <<>>, NoSchema)
NotAnObject == BuildFn("function", FALSE, {}, <<>>, NoSchema)

BuildCheck(_buildFn) ==
    IF _buildFn.t = "undefined" THEN <<"Build function argument not provided">>
    ELSE IF _buildFn.t # "function" THEN <<"Build argument must be a function">>
    ELSE IF ~_buildFn.obj THEN <<"Build function return value is not valid">>
    ELSE <<>>

\* `if (result.args) builder.args(...result.args)` and
\* `if (result.returns) builder.returns(result.returns)`, on _schemas
\* (variant: build() passes result.args on whether it is set or not)
BuildArgsAlways(schemas, result) == SetArgs(schemas, result.args)
BuildArgs(schemas, result) ==
    IF "args" \in result.has THEN SetArgs(schemas, result.args) ELSE schemas
BuildReturns(schemas, result) ==
    IF "returns" \in result.has THEN SetReturns(schemas, result.returns) ELSE schemas

\* build(_buildFn): the calls of args and returns it makes throw as they do
\* on their own; what args has set stays set when returns throws.
Build(b, _buildFn) ==
    LET ref == BuilderRef(b)
        argsMsg == IF "args" \in _buildFn.has THEN ArgsCheck(_buildFn.args) ELSE <<>>
        retMsg == IF "returns" \in _buildFn.has THEN ReturnsCheck(_buildFn.returns) ELSE <<>>
        h1 == [HeapWith(b, TRUE) EXCEPT ![ref] = BuildArgs(@, _buildFn)]
        h2 == [h1 EXCEPT ![ref] = BuildReturns(@, _buildFn)]
    IN  /\ NoneRunning
        /\ b \in Builders
        /\ IF BuildCheck(_buildFn) # <<>>
           THEN heap' = heap /\ last' = Threw(BuilderObj(b), BuildCheck(_buildFn))
           ELSE IF argsMsg # <<>>
           THEN heap' = heap /\ last' = Threw(BuilderObj(b), argsMsg)
           ELSE IF retMsg # <<>>
           THEN /\ heap' = IF b # 0 THEN h1 ELSE heap
                /\ last' = Threw(BuilderObj(b), retMsg)
           ELSE /\ heap' = h2
                /\ last' = Returned(BuilderObj(b), BuilderObj(ref))
        /\ UNCHANGED <<fns, calls>>

\* getExecFn: the options record of a new callable
Options(kind, builder) ==
    [kind |-> kind, builder |-> builder, execFn |-> "og", spyFn |-> "noop",
     spyFnCount |-> 0, onErrorFn |-> "default"]

\* create(fn) (kind "sync") and createAsync(fn) (kind "async")
Create(b, kind) ==
    /\ NoneRunning
    /\ b \in Builders
    /\ heap' = HeapWith(b, FALSE)
    /\ fns' = Append(fns, Options(kind, BuilderRef(b)))
    /\ last' = Returned(BuilderObj(b), Callable(Len(fns) + 1))
    /\ UNCHANGED calls

(***************************************************************************)
(* Instrumentation: the methods getExecFn puts on a callable.  Each checks *)
(* its argument, then changes the options record and returns the callable. *)
(***************************************************************************)
\* What a caller passes where a function is expected: a function, nothing,
\* or a value that is not a function (the tests pass the number 1).
NoValue == "undefined"
NotAFunction == "1"
IsFunction(x) == x \notin {NoValue, NotAFunction}

\* The message of the ZodFnError a method throws for its argument, <<>>
\* when the argument passes.
FunctionCheck(x, missing, wrong) ==
    IF x = NoValue THEN <<missing>>
    ELSE IF ~IsFunction(x) THEN <<wrong>>
    ELSE <<>>
MockCheck(m) ==
    FunctionCheck(m, "Mock function argument not provided", "Mock argument must be a function")
\* (variant: spy() does not check its argument)
SpyCheckNone(s) == <<>>
SpyCheck(s) ==
    FunctionCheck(s, "Spy handler function not provided", "Spy handler must be a function")
OnErrorCheck(h) ==
    FunctionCheck(h, "onError handler function not provided",
                  "onError handler must be a function")

\* The assignments each method makes to the options record.
SetMock(o, m) == [o EXCEPT !.execFn = m]
\* (variant: resetMock leaves the mock in place)
SetResetMockKept(o) == o
SetResetMock(o) == [o EXCEPT !.execFn = "og"]
\* (variant: spy() keeps the counter)
SetSpyKeepsCount(o, s) == [o EXCEPT !.spyFn = s]
SetSpy(o, s) == [o EXCEPT !.spyFnCount = 0, !.spyFn = s]
\* (variant: resetSpy leaves the counter as it is)
SetResetSpyKeepsCount(o) == [o EXCEPT !.spyFn = "noop"]
SetResetSpy(o) == [o EXCEPT !.spyFnCount = 0, !.spyFn = "noop"]
\* (variant: onError() makes a new record from the defaults)
SetOnErrorFromDefaults(o, h) ==
    [o EXCEPT !.execFn = "og", !.spyFn = "noop", !.spyFnCount = 0, !.onErrorFn = h]
SetOnError(o, h) == [o EXCEPT !.onErrorFn = h]

\* (variant: the callables made from one builder share their options)
MutatorShared(c, message, options) ==
    /\ NoneRunning
    /\ c \in 1..Len(fns)
    /\ IF message # <<>>
       THEN fns' = fns /\ last' = Threw(Callable(c), message)
       ELSE /\ fns' = [d \in 1..Len(fns) |->
                        IF fns[d].builder = fns[c].builder
                        THEN [options EXCEPT !.kind = fns[d].kind]
                        ELSE fns[d]]
            /\ last' = Returned(Callable(c), Callable(c))
    /\ UNCHANGED <<heap, calls>>

\* (variant: a method called while an invocation is in flight has no effect)
MutatorWhenIdle(c, message, options) ==
    /\ NoneRunning
    /\ c \in 1..Len(fns)
    /\ IF message # <<>>
       THEN fns' = fns /\ last' = Threw(Callable(c), message)
       ELSE /\ fns' = IF calls = <<>> THEN [fns EXCEPT ![c] = options] ELSE fns
            /\ last' = Returned(Callable(c), Callable(c))
    /\ UNCHANGED <<heap, calls>>

\* A method of callable c: it throws `message`, or replaces the options by
\* `options` and returns the callable.
Mutator(c, message, options) ==
    /\ NoneRunning
    /\ c \in 1..Len(fns)
    /\ IF message # <<>>
       THEN fns' = fns /\ last' = Threw(Callable(c), message)
       ELSE fns' = [fns EXCEPT ![c] = options] /\ last' = Returned(Callable(c), Callable(c))
    /\ UNCHANGED <<heap, calls>>

Mock(c, m) == Mutator(c, MockCheck(m), SetMock(fns[c], m))
ResetMock(c) == Mutator(c, <<>>, SetResetMock(fns[c]))
Spy(c, s) == Mutator(c, SpyCheck(s), SetSpy(fns[c], s))
ResetSpy(c) == Mutator(c, <<>>, SetResetSpy(fns[c]))
OnError(c, h) == Mutator(c, OnErrorCheck(h), SetOnError(fns[c], h))

(***************************************************************************)
(* One invocation of a callable, a stage at a time.                        *)
(***************************************************************************)
\* (variant: createAsync's callable written as a plain function)
StartBranchPlain(kind) == "sync"

\* create's callable is a plain function, createAsync's an async one: all of
\* its body runs inside the promise it returns.
StartBranch(kind) == IF kind = "async" THEN "promise" ELSE "sync"

\* (variant: the instanceof Promise test is missing)
ImplBranchUnchanged(branch, o) == branch

\* `if (ret instanceof Promise) return (async () => {...})()` in create
ImplBranch(branch, o) == IF IsPromise(o) THEN "promise" ELSE branch

\* (variant: an error is thrown whatever the branch)
DeliverThrows(branch, ok) ==
    IF ~ok THEN "throw" ELSE IF branch = "sync" THEN "return" ELSE "resolve"

\* How a result or an error leaves the invocation.
Deliver(branch, ok) ==
    IF branch = "sync" THEN (IF ok THEN "return" ELSE "throw")
    ELSE (IF ok THEN "resolve" ELSE "reject")

\* (variant: the default handler wraps the error)
DefaultOnErrorWrapped(err) == Outcome("throw", Undefined, ZodFnError(err.message))

\* the default onErrorFn: (err, _args) => { throw err; }
DefaultOnError(err) == Outcome("throw", Undefined, err)
\* the default spyFn: (_args, _ret) => {}
DefaultSpy == Outcome("ret", Undefined, NoErr)

HandlerChoices(h, err) ==
    IF h = "default" THEN {DefaultOnError(err)} ELSE HandlerOutcomes
SpyChoices(s) == IF s = "noop" THEN {DefaultSpy} ELSE SpyOutcomes

\* (variant: the try block also encloses the call of the spy)
CaughtByTryAndSpy(stage) == stage \in {"invoke", "spy"}

\* (variant: the try block also encloses return validation)
CaughtByTryWide(stage) == stage \in {"invoke", "retval"}

\* The try blocks of create and createAsync enclose the call of execFn and
\* the await of its promise, nothing else: only a failure there reaches the
\* catch block and onErrorFn.
CaughtByTry(stage) == stage = "invoke"

\* (variant: no branch awaits the handler's promise)
HandlerMayAwaitNever(branch) == FALSE
\* (variants: the synchronous branch awaits the promise like the others)
HandlerMayAwaitAlways(branch) == TRUE
SpyMayAwaitAlways(branch) == TRUE

\* A promise from onErrorFn or spyFn is awaited inside create's async branch
\* and in createAsync; create's synchronous branch rejects it.
HandlerMayAwait(branch) == branch # "sync"
SpyMayAwait(branch) == branch # "sync"

\* (variant: the promise is dropped as it is)
DroppedAsIs(from, o) == [from |-> from, how |-> o.how, caught |-> FALSE]

\* `ret.catch(() => {})` and `spyFnRes.catch(() => {})`: the promise the
\* synchronous branch drops, a rejection handler attached to it.
Dropped(from, o) == [from |-> from, how |-> o.how, caught |-> TRUE]

\* (variant: the handler's error is wrapped)
HandlerFailureWrapped(o) == ZodFnError(o.err.message)

\* What a failed onErrorFn call throws to the caller.
HandlerFailure(o) == o.err

HandlerPromiseError ==
    ZodFnError(Text(<<"onError handler function cannot return a promise in a synchronous context">>))
SpyPromiseError ==
    ZodFnError(Text(<<"Spy handler function cannot return a promise in a synchronous context">>))

\* (variant: the result of returnValidation is dropped)
ValidatedRetDropped(ret, r) == ret

\* `ret = returnValidation(ret, ...)`: the validated value replaces ret
ValidatedRet(ret, r) == r.out
\* (variant: the value is put in front of the list)
PushArgInFront(parsedArgs, v) == <<v>> \o parsedArgs
\* parsedArgs.push(argValidation(...)) / parsedArgs.push(args[i])
PushArg(parsedArgs, v) == Append(parsedArgs, v)

\* builder._schemas.args[i], read from the builder object at the call
SchemaAt(b, i) == IF i <= Len(heap[b].args) THEN heap[b].args[i] ELSE NoSchema
ReturnSchema(b) == heap[b].ret

AfterArgs(inv) == IF Len(inv.parsedArgs) = Len(inv.args) THEN "invoke" ELSE "args"

Continue(k, inv) ==
    /\ calls' = [calls EXCEPT ![k] = inv]
    /\ UNCHANGED last

Finish(k, inv, ok) ==
    /\ calls' = [j \in 1..(Len(calls) - 1) |-> IF j < k THEN calls[j] ELSE calls[j + 1]]
    /\ last' = [inv EXCEPT !.pc = "done", !.running = FALSE,
                           !.delivery = Deliver(inv.branch, ok)]

\* f(...args): the callable is entered
Call(c, args) ==
    /\ NoneRunning
    /\ c \in 1..Len(fns)
    /\ LET inv == [Idle EXCEPT !.c = c, !.running = TRUE, !.args = args,
                               !.branch = StartBranch(fns[c].kind)]
       IN  calls' = Append(calls, [inv EXCEPT !.pc = AfterArgs(inv)])
    /\ last' = Idle
    /\ UNCHANGED <<heap, fns>>

\* (variant: the spy stage is entered whatever happened before it)
RaiseThenSpy(k, inv, stage, err) == Continue(k, [inv EXCEPT !.pc = "spy"])

\* An error raised at `stage`: to the catch block when the stage stands
\* inside the try, else out of the invocation.
Raise(k, inv, stage, err) ==
    IF CaughtByTry(stage)
    THEN Continue(k, [inv EXCEPT !.pc = "handler", !.error = err])
    ELSE Finish(k, [inv EXCEPT !.error = err], FALSE)

\* (variant: the loop runs from the last position down)
NextPositionFromLast(inv) == Len(inv.args) - Len(inv.parsedArgs)
\* the position the argument loop is at: for (let i = 0; i < args.length; i++)
NextPosition(inv) == Len(inv.parsedArgs) + 1

\* (variants: the call arguments are passed on as they were given)
PassedToImplRaw(inv) == inv.args
PassedToHandlerRaw(inv) == inv.args
\* execFn(...parsedArgs), onErrorFn(error, parsedArgs), spyFn(parsedArgs, ret, count)
PassedToImpl(inv) == inv.parsedArgs
PassedToHandler(inv) == inv.parsedArgs
PassedToSpy(inv) == inv.parsedArgs

\* (variant: the spy's error is wrapped)
SpyFailureWrapped(o) == ZodFnError(o.err.message)
\* What a failed spyFn call throws to the caller.
SpyFailure(o) == o.err

\* one turn of the argument loop
ArgStep(k) ==
    /\ calls[k].pc = "args" /\ CanRun(k)
    /\ LET inv == calls[k]
           f == fns[inv.c]
           i == NextPosition(inv)
           schema == SchemaAt(f.builder, i)
           isAsync == f.kind = "async"
       IN  IF schema # NoSchema
           THEN LET r == argValidation(inv.args[i], i, schema, isAsync)
                    e == Entry("argval", schema, inv.args[i], r.out, i,
                               IF r.ok THEN "ok" ELSE "fail", r.error, NoErr)
                    ran == [inv EXCEPT !.log = Append(@, e), !.running = TRUE]
                    pushed == [ran EXCEPT !.parsedArgs = PushArg(@, r.out)]
                IN  IF r.ok
                    THEN Continue(k, [pushed EXCEPT !.pc = AfterArgs(pushed),
                                                    !.running = ~isAsync])
                    ELSE Raise(k, ran, "args", r.error)
           ELSE LET pushed == [inv EXCEPT !.parsedArgs = PushArg(@, inv.args[i])]
                IN  Continue(k, [pushed EXCEPT !.pc = AfterArgs(pushed),
                                                !.running = TRUE])
    /\ UNCHANGED <<heap, fns>>

\* ret = builderOpts.execFn(...parsedArgs), and the await of its promise
InvokeStep(k) ==
    /\ calls[k].pc = "invoke" /\ CanRun(k)
    /\ \E o \in ImplOutcomes :
         LET inv == calls[k]
             f == fns[inv.c]
             e == Passed(Entry("impl", f.execFn, Undefined, o.val, Len(inv.parsedArgs),
                               o.how, o.err, NoErr), PassedToImpl(inv))
             ran == [inv EXCEPT !.log = Append(@, e),
                                !.branch = ImplBranch(@, o),
                                !.running = ~IsPromise(o)]
         IN  IF o.how \in {"ret", "pres"}
             THEN Continue(k, [ran EXCEPT !.pc = "retval", !.ret = o.val])
             ELSE Raise(k, ran, "invoke", o.err)
    /\ UNCHANGED <<heap, fns>>

\* ret = builderOpts.onErrorFn(error, parsedArgs) in the catch blocks
HandlerStep(k) ==
    /\ calls[k].pc = "handler" /\ CanRun(k)
    /\ LET inv == calls[k]
           f == fns[inv.c]
       IN  \E o \in HandlerChoices(f.onErrorFn, inv.error) :
             LET e == Passed(Entry("handler", f.onErrorFn, Undefined, o.val,
                                   Len(inv.parsedArgs), o.how, o.err, inv.error),
                             PassedToHandler(inv))
                 ran == [inv EXCEPT !.log = Append(@, e), !.running = TRUE]
                 recovered == [ran EXCEPT !.pc = "retval", !.ret = o.val,
                                          !.error = NoErr]
             IN  IF o.how = "ret"
                 THEN Continue(k, recovered)
                 ELSE IF o.how = "throw"
                 THEN Raise(k, ran, "handler", HandlerFailure(o))
                 ELSE IF ~HandlerMayAwait(inv.branch)
                 THEN Raise(k, [ran EXCEPT !.leaked = Append(@, Dropped("handler", o))],
                            "handler", HandlerPromiseError)
                 ELSE IF o.how = "pres"
                 THEN Continue(k, [recovered EXCEPT !.running = FALSE])
                 ELSE Raise(k, ran, "handler", HandlerFailure(o))
    /\ UNCHANGED <<heap, fns>>

\* ret = returnValidation(ret, builder._schemas.return, isAsync)
RetvalStep(k) ==
    /\ calls[k].pc = "retval" /\ CanRun(k)
    /\ LET inv == calls[k]
           f == fns[inv.c]
           isAsync == f.kind = "async"
           schema == ReturnSchema(f.builder)
           r == returnValidation(inv.ret, schema, isAsync)
           e == Entry("retval", schema, inv.ret, r.out, 0,
                      IF r.ok THEN "ok" ELSE "fail", r.error, NoErr)
           ran == [inv EXCEPT !.log = Append(@, e), !.running = TRUE]
       IN  IF r.ok
           THEN Continue(k, [ran EXCEPT !.pc = "spy", !.ret = ValidatedRet(@, r),
                                        !.running = ~isAsync])
           ELSE Raise(k, ran, "retval", r.error)
    /\ UNCHANGED <<heap, fns>>

\* (variant: the counter is not incremented)
NextCountStuck(n) == n
\* builderOpts.spyFnCount++
NextCount(n) == n + 1

\* (variant: the spy is given the invocation's place among those in flight)
SpyCountByStart(f, k) == k
\* the counter the spy of invocation k is given: the shared spyFnCount, incremented
SpyCount(f, k) == NextCount(f.spyFnCount)

\* builderOpts.spyFnCount++; builderOpts.spyFn(parsedArgs, ret, spyFnCount)
SpyStep(k) ==
    /\ calls[k].pc = "spy" /\ CanRun(k)
    /\ LET inv == calls[k]
           f == fns[inv.c]
           count == SpyCount(f, k)
       IN  /\ fns' = [fns EXCEPT ![inv.c].spyFnCount = count]
           /\ \E o \in SpyChoices(f.spyFn) :
                LET e == Passed(Entry("spy", f.spyFn, inv.ret, Undefined, count, o.how,
                                      o.err, NoErr), PassedToSpy(inv))
                    ran == [inv EXCEPT !.log = Append(@, e), !.running = TRUE]
                IN  IF o.how = "ret"
                    THEN Finish(k, ran, TRUE)
                    ELSE IF o.how = "throw"
                    THEN Raise(k, ran, "spy", SpyFailure(o))
                    ELSE IF ~SpyMayAwait(inv.branch)
                    THEN Raise(k, [ran EXCEPT !.leaked = Append(@, Dropped("spy", o))],
                               "spy", SpyPromiseError)
                    ELSE IF o.how = "pres"
                    THEN Continue(k, [ran EXCEPT !.pc = "spywait", !.running = FALSE])
                    ELSE Raise(k, ran, "spy", SpyFailure(o))
    /\ UNCHANGED heap

\* `return ret` once the spy's promise has been awaited
ReturnStep(k) ==
    /\ calls[k].pc = "spywait" /\ CanRun(k)
    /\ Finish(k, calls[k], TRUE)
    /\ UNCHANGED <<heap, fns>>

(***************************************************************************)
(* The specification: one builder chain, the callable made from it (or     *)
(* from the root), and its invocations, each awaited before the next call  *)
(* of the callable.  Builder and instrumentation methods may be called     *)
(* while an invocation is suspended.                                       *)
(***************************************************************************)
\* the root is configured once: later calls go to the builder it returned
FirstBuilder(b) == b # 0 \/ heap = <<>>
NoCallable == fns = <<>>
Awaited == calls = <<>>
\* the spy counter is bounded: no call is started that could pass the bound
BelowBound(c) == fns[c].spyFnCount + InFlight(c) < MaxSpyCount

Next ==
    \/ \E b \in Builders, l \in ArgSchemaLists : FirstBuilder(b) /\ Args(b, l) /\ UNCHANGED hist
    \/ \E b \in Builders, s \in ReturnSchemas : FirstBuilder(b) /\ Returns(b, s) /\ UNCHANGED hist
    \/ \E b \in Builders, kind \in {"sync", "async"} : NoCallable /\ Create(b, kind) /\ UNCHANGED hist
    \/ \E c \in 1..Len(fns) : Mock(c, "mock") /\ UNCHANGED hist
    \/ \E c \in 1..Len(fns) : ResetMock(c) /\ UNCHANGED hist
    \/ \E c \in 1..Len(fns) : Spy(c, "spy") /\ UNCHANGED hist
    \/ \E c \in 1..Len(fns) : ResetSpy(c) /\ UNCHANGED hist
    \/ \E c \in 1..Len(fns) : OnError(c, "handler") /\ UNCHANGED hist
    \/ \E c \in 1..Len(fns), a \in ArgLists : Awaited /\ BelowBound(c) /\ Call(c, a) /\ UNCHANGED hist
    \/ \E k \in DOMAIN calls : ArgStep(k) /\ UNCHANGED hist
    \/ \E k \in DOMAIN calls : InvokeStep(k) /\ UNCHANGED hist
    \/ \E k \in DOMAIN calls : HandlerStep(k) /\ UNCHANGED hist
    \/ \E k \in DOMAIN calls : RetvalStep(k) /\ UNCHANGED hist
    \/ \E k \in DOMAIN calls : SpyStep(k) /\ UNCHANGED hist
    \/ \E k \in DOMAIN calls : ReturnStep(k) /\ UNCHANGED hist

Spec == Init /\ [][Next]_vars

(***************************************************************************)
(* The builder methods: the root and the builder made from it, configured  *)
(* by args, returns and build with arguments that pass and arguments that  *)
(* do not, and one callable with the instrumentation it is created with.   *)
(* Each invocation is awaited before the next call.                        *)
(***************************************************************************)
BuilderArgLists ==
    ArgSchemaLists
        \cup {<<>>, <<"num", NotASchema>>, <<NotASchema, "num", NotASchema>>,
              <<"num", "inc", ParseOnly>>, <<ParseAsyncOnly>>}
BuilderReturnSchemas == ReturnSchemas \cup {NoSchema, NotASchema, ParseOnly, ParseAsyncOnly}
BuildFns ==
    {NoBuildFn, NotABuildFn, NotAnObject}
        \cup {BuildResult(has, l, r) :
                has \in SUBSET {"args", "returns"},
                l \in {<<>>, <<"inc">>, <<"num", NotASchema>>},
                r \in {"asyncT", NotASchema}}

NextBuilder ==
    \/ \E b \in Builders, l \in BuilderArgLists :
         Awaited /\ FirstBuilder(b) /\ Args(b, l) /\ Note("args", BuilderObj(b), l)
    \/ \E b \in Builders, r \in BuilderReturnSchemas :
         Awaited /\ FirstBuilder(b) /\ Returns(b, r) /\ Note("returns", BuilderObj(b), r)
    \/ \E b \in Builders, f \in BuildFns :
         Awaited /\ FirstBuilder(b) /\ Build(b, f) /\ Note("build", BuilderObj(b), f)
    \/ \E b \in Builders, kind \in {"sync", "async"} :
         Awaited /\ NoCallable /\ Create(b, kind) /\ Note("create", BuilderObj(b), kind)
    \/ \E c \in 1..Len(fns), a \in ArgLists :
         Awaited /\ BelowBound(c) /\ Call(c, a) /\ Note("call", Callable(c), a)
    \/ \E k \in DOMAIN calls : ArgStep(k) /\ UNCHANGED hist
    \/ \E k \in DOMAIN calls : InvokeStep(k) /\ UNCHANGED hist
    \/ \E k \in DOMAIN calls : HandlerStep(k) /\ UNCHANGED hist
    \/ \E k \in DOMAIN calls : RetvalStep(k) /\ UNCHANGED hist
    \/ \E k \in DOMAIN calls : SpyStep(k) /\ UNCHANGED hist

SpecBuilder == Init /\ [][NextBuilder]_vars

(***************************************************************************)
(* The instrumentation of one callable: mock, resetMock, spy, resetSpy and *)
(* onError with arguments that pass and arguments that do not, between     *)
(* invocations that are each awaited before the next call.                 *)
(***************************************************************************)
MockArgs == {"mock", "mock2", NoValue, NotAFunction}
SpyArgs == {"spy", NoValue, NotAFunction}
OnErrorArgs == {"handler", NoValue, NotAFunction}
BelowCounted(c) == fns[c].spyFnCount + InFlight(c) < MaxCounted

NextInstr ==
    \/ \E b \in Builders :
         Awaited /\ FirstBuilder(b) /\ Args(b, <<"inc">>)
            /\ Note("args", BuilderObj(b), <<"inc">>)
    \/ \E b \in Builders :
         Awaited /\ FirstBuilder(b) /\ Returns(b, "inc")
            /\ Note("returns", BuilderObj(b), "inc")
    \/ \E b \in Builders, kind \in {"sync", "async"} :
         Awaited /\ NoCallable /\ Create(b, kind) /\ Note("create", BuilderObj(b), kind)
    \/ \E c \in 1..Len(fns), m \in MockArgs :
         Awaited /\ Mock(c, m) /\ Note("mock", Callable(c), m)
    \/ \E c \in 1..Len(fns) :
         Awaited /\ ResetMock(c) /\ Note("resetMock", Callable(c), NoValue)
    \/ \E c \in 1..Len(fns), s \in SpyArgs :
         Awaited /\ Spy(c, s) /\ Note("spy", Callable(c), s)
    \/ \E c \in 1..Len(fns) :
         Awaited /\ ResetSpy(c) /\ Note("resetSpy", Callable(c), NoValue)
    \/ \E c \in 1..Len(fns), h \in OnErrorArgs :
         Awaited /\ OnError(c, h) /\ Note("onError", Callable(c), h)
    \/ \E c \in 1..Len(fns), v \in ArgValues :
         Awaited /\ BelowCounted(c) /\ Call(c, <<v>>) /\ Note("call", Callable(c), <<v>>)
    \/ \E k \in DOMAIN calls : ArgStep(k) /\ UNCHANGED hist
    \/ \E k \in DOMAIN calls : InvokeStep(k) /\ UNCHANGED hist
    \/ \E k \in DOMAIN calls : HandlerStep(k) /\ UNCHANGED hist
    \/ \E k \in DOMAIN calls : RetvalStep(k) /\ UNCHANGED hist
    \/ \E k \in DOMAIN calls : SpyStep(k) /\ UNCHANGED hist
    \/ \E k \in DOMAIN calls : ReturnStep(k) /\ UNCHANGED hist

SpecInstr == Init /\ [][NextInstr]_vars

(***************************************************************************)
(* Two callables made from one builder, each instrumented and invoked on   *)
(* its own.  The functions given to them are plain ones: they return 1 or  *)
(* throw, and return no promise.                                           *)
(***************************************************************************)
OneCallable == Len(fns) = 1
PlainRun(inv) ==
    \A i \in 1..Len(inv.log) :
        /\ inv.log[i].how \in {"ret", "throw", "ok", "fail"}
        /\ inv.log[i].ev \in {"impl", "handler"} => inv.log[i].out \in {Undefined, Num(1)}
Plain == PlainRun(last) /\ \A k \in DOMAIN calls : PlainRun(calls[k])

NextPair ==
    \/ Awaited /\ FirstBuilder(0) /\ Returns(0, "inc")
         /\ Note("returns", BuilderObj(0), "inc")
    \/ \E b \in Builders \ {0}, kind \in {"sync", "async"} :
         Awaited /\ (NoCallable \/ OneCallable) /\ Create(b, kind)
            /\ Note("create", BuilderObj(b), kind)
    \/ \E c \in 1..Len(fns) :
         Awaited /\ Mock(c, "mock") /\ Note("mock", Callable(c), "mock")
    \/ \E c \in 1..Len(fns) :
         Awaited /\ ResetMock(c) /\ Note("resetMock", Callable(c), NoValue)
    \/ \E c \in 1..Len(fns) :
         Awaited /\ Spy(c, "spy") /\ Note("spy", Callable(c), "spy")
    \/ \E c \in 1..Len(fns) :
         Awaited /\ ResetSpy(c) /\ Note("resetSpy", Callable(c), NoValue)
    \/ \E c \in 1..Len(fns) :
         Awaited /\ OnError(c, "handler") /\ Note("onError", Callable(c), "handler")
    \/ \E c \in 1..Len(fns) :
         Awaited /\ BelowBound(c) /\ Call(c, <<>>) /\ Note("call", Callable(c), <<>>)
    \/ \E k \in DOMAIN calls : InvokeStep(k) /\ Plain' /\ UNCHANGED hist
    \/ \E k \in DOMAIN calls : HandlerStep(k) /\ Plain' /\ UNCHANGED hist
    \/ \E k \in DOMAIN calls : RetvalStep(k) /\ UNCHANGED hist
    \/ \E k \in DOMAIN calls : SpyStep(k) /\ Plain' /\ UNCHANGED hist

SpecPair == Init /\ [][NextPair]_vars

(***************************************************************************)
(* The ordinal of a position: args() is given n values of which the last   *)
(* is not a schema, for every n up to MaxPosition, and names position n.   *)
(***************************************************************************)
BadAt(n) == [i \in 1..n |-> IF i = n THEN NotASchema ELSE "num"]

NextOrdinal ==
    \E n \in 1..MaxPosition : Args(0, BadAt(n)) /\ Note("args", BuilderObj(0), BadAt(n))

SpecOrdinal == Init /\ [][NextOrdinal]_vars

(***************************************************************************)
(* Validation: one builder with schemas at up to three positions and a      *)
(* return schema (Zod schemas and the hand-written validator), one callable *)
(* of either kind with its default instrumentation, called with accepted    *)
(* and rejected values; each invocation is awaited before the next call.    *)
(***************************************************************************)
ValidArgLists == {<<"num", "inc", "num">>, <<ParseAsyncOnly, "asyncT">>}
ValidReturnSchemas == {"num", "asyncT", ParseAsyncOnly}
ValidCallArgs ==
    {<<>>} \cup {<<a>> : a \in ArgValues}
        \cup {<<a, b>> : a \in ArgValues, b \in ArgValues}
        \cup {<<a, b, c>> : a \in ArgValues, b \in ArgValues, c \in ArgValues}

NextValid ==
    \/ \E b \in Builders, l \in ValidArgLists :
         Awaited /\ FirstBuilder(b) /\ Args(b, l) /\ Note("args", BuilderObj(b), l)
    \/ \E b \in Builders, r \in ValidReturnSchemas :
         Awaited /\ FirstBuilder(b) /\ Returns(b, r) /\ Note("returns", BuilderObj(b), r)
    \/ \E b \in Builders, kind \in {"sync", "async"} :
         Awaited /\ NoCallable /\ Create(b, kind) /\ Note("create", BuilderObj(b), kind)
    \/ \E c \in 1..Len(fns), a \in ValidCallArgs :
         Awaited /\ BelowBound(c) /\ Call(c, a) /\ Note("call", Callable(c), a)
    \/ \E k \in DOMAIN calls : ArgStep(k) /\ UNCHANGED hist
    \/ \E k \in DOMAIN calls : InvokeStep(k) /\ UNCHANGED hist
    \/ \E k \in DOMAIN calls : HandlerStep(k) /\ UNCHANGED hist
    \/ \E k \in DOMAIN calls : RetvalStep(k) /\ UNCHANGED hist
    \/ \E k \in DOMAIN calls : SpyStep(k) /\ UNCHANGED hist

SpecValid == Init /\ [][NextValid]_vars

(***************************************************************************)
(* Invocations in flight together: one callable with a spy, called again    *)
(* while an earlier invocation is suspended at an await.  Implementations   *)
(* return 1, as a value or through a promise, or fail.                      *)
(***************************************************************************)
OneValued(inv) ==
    \A i \in 1..Len(inv.log) :
        inv.log[i].ev \in {"impl", "handler"} => inv.log[i].out \in {Undefined, Num(1)}
AllOneValued == OneValued(last) /\ \A k \in DOMAIN calls : OneValued(calls[k])

NextRace ==
    \/ \E kind \in {"sync", "async"} :
         Awaited /\ NoCallable /\ Create(0, kind) /\ Note("create", BuilderObj(0), kind)
    \/ \E c \in 1..Len(fns) :
         Awaited /\ fns[c].spyFn = "noop" /\ Spy(c, "spy") /\ Note("spy", Callable(c), "spy")
    \/ \E c \in 1..Len(fns) :
         BelowCounted(c) /\ Call(c, <<>>) /\ Note("call", Callable(c), <<>>)
    \/ \E k \in DOMAIN calls : InvokeStep(k) /\ AllOneValued' /\ UNCHANGED hist
    \/ \E k \in DOMAIN calls : HandlerStep(k) /\ UNCHANGED hist
    \/ \E k \in DOMAIN calls : RetvalStep(k) /\ UNCHANGED hist
    \/ \E k \in DOMAIN calls : SpyStep(k) /\ UNCHANGED hist
    \/ \E k \in DOMAIN calls : ReturnStep(k) /\ UNCHANGED hist

SpecRace == Init /\ [][NextRace]_vars

(***************************************************************************)
(* Instrumentation changed in flight: one createAsync or create callable    *)
(* with an argument schema, one invocation at a time, and mock, onError and *)
(* spy called between invocations and while one is suspended at an await.   *)
(***************************************************************************)
FlightMocks == {"mock", "mock2"}
FlightSpies == {"spy", "spy2"}
FlightHandlers == {"handler", "handler2"}

NextFlight ==
    \/ Awaited /\ FirstBuilder(0) /\ Args(0, <<"inc">>)
         /\ Note("args", BuilderObj(0), <<"inc">>)
    \/ \E b \in Builders \ {0}, kind \in {"sync", "async"} :
         Awaited /\ NoCallable /\ Create(b, kind) /\ Note("create", BuilderObj(b), kind)
    \/ \E c \in 1..Len(fns), m \in FlightMocks :
         Mock(c, m) /\ Note("mock", Callable(c), m)
    \/ \E c \in 1..Len(fns), s \in FlightSpies :
         Spy(c, s) /\ Note("spy", Callable(c), s)
    \/ \E c \in 1..Len(fns), h \in FlightHandlers :
         OnError(c, h) /\ Note("onError", Callable(c), h)
    \/ \E c \in 1..Len(fns) :
         Awaited /\ BelowBound(c) /\ Call(c, <<Num(1)>>)
            /\ Note("call", Callable(c), <<Num(1)>>)
    \/ \E k \in DOMAIN calls : ArgStep(k) /\ UNCHANGED hist
    \/ \E k \in DOMAIN calls : InvokeStep(k) /\ AllOneValued' /\ UNCHANGED hist
    \/ \E k \in DOMAIN calls : HandlerStep(k) /\ AllOneValued' /\ UNCHANGED hist
    \/ \E k \in DOMAIN calls : RetvalStep(k) /\ UNCHANGED hist
    \/ \E k \in DOMAIN calls : SpyStep(k) /\ UNCHANGED hist
    \/ \E k \in DOMAIN calls : ReturnStep(k) /\ UNCHANGED hist

SpecFlight == Init /\ [][NextFlight]_vars

\* The next stage of an invocation in flight: its synchronous code runs on,
\* or the continuation of the await it is suspended at is run.
Resume ==
    \E k \in DOMAIN calls :
        /\ \/ ArgStep(k)
           \/ InvokeStep(k) /\ AllOneValued'
           \/ HandlerStep(k) /\ AllOneValued'
           \/ RetvalStep(k)
           \/ SpyStep(k)
           \/ ReturnStep(k)
        /\ UNCHANGED hist

\* Every promise awaited settles and the job queue is served: an invocation
\* that can go on does go on, whatever the caller does meanwhile.
SpecFlightLive == SpecFlight /\ WF_vars(Resume)

(***************************************************************************)
(* The spy counter under interleaving: one callable, invocations in flight  *)
(* together, and spy(), resetSpy() and mock() called between them and       *)
(* while they are suspended at an await.                                    *)
(***************************************************************************)
NextCounted ==
    \/ \E kind \in {"sync", "async"} :
         Awaited /\ NoCallable /\ Create(0, kind) /\ Note("create", BuilderObj(0), kind)
    \/ \E c \in 1..Len(fns) : Spy(c, "spy") /\ Note("spy", Callable(c), "spy")
    \/ \E c \in 1..Len(fns) : ResetSpy(c) /\ Note("resetSpy", Callable(c), NoValue)
    \/ \E c \in 1..Len(fns) : Mock(c, "mock") /\ Note("mock", Callable(c), "mock")
    \/ \E c \in 1..Len(fns) :
         BelowCounted(c) /\ Call(c, <<>>) /\ Note("call", Callable(c), <<>>)
    \/ \E k \in DOMAIN calls : InvokeStep(k) /\ AllOneValued' /\ UNCHANGED hist
    \/ \E k \in DOMAIN calls : HandlerStep(k) /\ UNCHANGED hist
    \/ \E k \in DOMAIN calls : RetvalStep(k) /\ UNCHANGED hist
    \/ \E k \in DOMAIN calls : SpyStep(k) /\ UNCHANGED hist
    \/ \E k \in DOMAIN calls : ReturnStep(k) /\ UNCHANGED hist

SpecCounted == Init /\ [][NextCounted]_vars

(***************************************************************************)
(* The root: args, returns, build, create and createAsync called on zfn     *)
(* again and again, and on the builders those calls returned.               *)
(***************************************************************************)
Room(b) == b # 0 \/ Len(heap) < MaxObjects
RootBuildFns ==
    {BuildResult({"args", "returns"}, <<"inc">>, "asyncT"),
     BuildResult({"args", "returns"}, <<"inc">>, NotASchema)}

NextRoot ==
    \/ \E b \in Builders :
         Room(b) /\ Args(b, <<"num">>) /\ Note("args", BuilderObj(b), <<"num">>)
    \/ \E b \in Builders :
         Room(b) /\ Returns(b, "asyncT") /\ Note("returns", BuilderObj(b), "asyncT")
    \/ \E b \in Builders, f \in RootBuildFns :
         Room(b) /\ Build(b, f) /\ Note("build", BuilderObj(b), f)
    \/ \E b \in Builders, kind \in {"sync", "async"} :
         Room(b) /\ NoCallable /\ Create(b, kind) /\ Note("create", BuilderObj(b), kind)

SpecRoot == Init /\ [][NextRoot]_vars

(***************************************************************************)
(* Properties.  They speak of the invocations in progress and of the one   *)
(* that has just completed, through the log each keeps.                    *)
(***************************************************************************)
Live == {inv \in {last} \cup {calls[k] : k \in DOMAIN calls} : inv.pc \notin {"idle", "api"}}
Evs(inv, ev) == {i \in 1..Len(inv.log) : inv.log[i].ev = ev}
KindOf(inv) == fns[inv.c].kind
Failed(inv) == inv.pc = "done" /\ inv.delivery \in {"throw", "reject"}
ImplGavePromise(inv) == \E i \in Evs(inv, "impl") : inv.log[i].how \in {"pres", "prej"}

\* C1: in every invocation return validation runs after the error handler
\* (when there was one) and right before the spy, on the value the
\* implementation or the handler produced, and the spy receives the output
\* of return validation.
C1_SpySeesValidatedResult ==
    \A inv \in Live :
        /\ \A s \in Evs(inv, "spy") :
               /\ s > 1
               /\ inv.log[s - 1].ev = "retval"
               /\ inv.log[s - 1].how = "ok"
               /\ inv.log[s].in = inv.log[s - 1].out
        /\ \A r \in Evs(inv, "retval") :
               /\ r > 1
               /\ inv.log[r - 1].ev \in {"impl", "handler"}
               /\ inv.log[r - 1].how \in {"ret", "pres"}
               /\ inv.log[r].in = inv.log[r - 1].out
               /\ \A h \in Evs(inv, "handler") : h < r

C1_Witness ==
    /\ last.pc = "done"
    /\ \E h \in Evs(last, "handler"), r \in Evs(last, "retval"), s \in Evs(last, "spy") :
           /\ h < r /\ r < s
           /\ last.log[r].fn = "inc"
           /\ last.log[r].out # last.log[r].in
           /\ last.log[s].fn = "spy"
           /\ last.log[s].in = last.log[r].out

\* C2: a failed argument or return validation ends the invocation there:
\* onErrorFn is not invoked after it, custom or default, and the caller gets
\* the validation error.
C2_ValidationFailureSkipsHandler ==
    \A inv \in Live :
        \A i \in 1..Len(inv.log) :
            (inv.log[i].ev \in {"argval", "retval"} /\ inv.log[i].how = "fail")
                => /\ i = Len(inv.log)
                   /\ Failed(inv)
                   /\ inv.error = inv.log[i].err
                   /\ inv.error.name = "ZodFnError"

C2_Witness ==
    /\ Failed(last)
    /\ fns[last.c].onErrorFn = "handler"
    /\ \E i \in Evs(last, "retval") : last.log[i].how = "fail"
    /\ Evs(last, "handler") # {}

\* The error handler runs at most once in an invocation, and only on the
\* error the implementation has just thrown or rejected with.
HandlerOncePerFailure(inv) ==
    /\ Cardinality(Evs(inv, "handler")) <= 1
    /\ \A h \in Evs(inv, "handler") :
           /\ h > 1
           /\ inv.log[h - 1].ev = "impl"
           /\ inv.log[h - 1].how \in {"throw", "prej"}
           /\ inv.log[h].errIn = inv.log[h - 1].err

\* C3 as stated: the handler runs at most once, only after the implementation
\* failed, and when it throws or rejects, that very error reaches the caller
\* and neither return validation nor the spy runs.
C3_Original ==
    \A inv \in Live :
        /\ HandlerOncePerFailure(inv)
        /\ \A h \in Evs(inv, "handler") :
               inv.log[h].how \in {"throw", "prej"}
                   => /\ h = Len(inv.log)
                      /\ Failed(inv)
                      /\ inv.error = inv.log[h].err

\* C3 amended: as C3, the handler's error reaching the caller unchanged when
\* it throws, or rejects where its promise is awaited (createAsync, and
\* create once the implementation returned a promise); a handler returning a
\* promise in create's synchronous branch ends the invocation with the
\* contract violation instead, whatever the promise settles to.
C3_HandlerOnceAndItsErrorPropagates ==
    \A inv \in Live :
        /\ HandlerOncePerFailure(inv)
        /\ \A h \in Evs(inv, "handler") :
               LET e == inv.log[h]
                   awaited == KindOf(inv) = "async" \/ ImplGavePromise(inv)
               IN  /\ (e.how = "throw" \/ (e.how = "prej" /\ awaited))
                          => /\ h = Len(inv.log)
                             /\ Failed(inv)
                             /\ inv.error = e.err
                   /\ (e.how \in {"pres", "prej"} /\ ~awaited)
                          => /\ h = Len(inv.log)
                             /\ inv.pc = "done" /\ inv.delivery = "throw"
                             /\ inv.error = HandlerPromiseError

C3_Witness ==
    /\ Failed(last)
    /\ \E h \in Evs(last, "handler") :
           /\ last.log[h].fn = "handler"
           /\ last.log[h].how = "prej"
           /\ last.log[h - 1].how = "prej"
           /\ last.error = HandlerErr

\* C4: with the default handler in place, the error the implementation
\* threw or rejected with is what the caller gets: thrown by create's
\* callable when the implementation threw, a rejection otherwise.
C4_DefaultHandlerRethrows ==
    \A inv \in Live :
        /\ \A i \in Evs(inv, "impl") :
               inv.log[i].how \in {"throw", "prej"}
                   => IF i = Len(inv.log) THEN inv.pc = "handler"
                      ELSE inv.log[i + 1].ev = "handler"
        /\ \A h \in Evs(inv, "handler") :
               (h > 1 /\ inv.log[h].fn = "default")
                   => /\ h = Len(inv.log)
                      /\ inv.pc = "done"
                      /\ inv.error = inv.log[h - 1].err
                      /\ inv.delivery =
                            IF KindOf(inv) = "sync" /\ inv.log[h - 1].how = "throw"
                            THEN "throw" ELSE "reject"

C4_Witness ==
    /\ last.pc = "done"
    /\ KindOf(last) = "sync"
    /\ last.delivery = "reject"
    /\ last.error = ImplErr
    /\ \E h \in Evs(last, "handler") : last.log[h].fn = "default"

\* C5: an invocation of create's callable returns a promise exactly when the
\* implementation returned one; otherwise it returns or throws synchronously.
C5_PromiseIffImplPromise ==
    \A inv \in Live :
        KindOf(inv) = "sync"
            => /\ inv.pc = "done"
                   => (inv.delivery \in {"resolve", "reject"} <=> ImplGavePromise(inv))
               /\ inv.pc = "done" => inv.delivery \in {"return", "throw", "resolve", "reject"}
               /\ (inv.pc # "done" /\ ~inv.running) => ImplGavePromise(inv)

C5_Witness ==
    /\ last.pc = "done"
    /\ KindOf(last) = "sync"
    /\ last.delivery = "return"
    /\ \E i \in Evs(last, "impl") : last.log[i].how = "throw"
    /\ \E h \in Evs(last, "handler") : last.log[h].how = "ret"

\* C6: every invocation of createAsync's callable ends as the resolution or
\* the rejection of the promise it returned, never as a synchronous throw or
\* a plain return.
C6_AsyncAlwaysPromise ==
    \A inv \in Live :
        (KindOf(inv) = "async" /\ inv.pc = "done")
            => inv.delivery \in {"resolve", "reject"}

C6_Witness ==
    /\ last.pc = "done"
    /\ KindOf(last) = "async"
    /\ last.delivery = "reject"
    /\ \E i \in Evs(last, "argval") : last.log[i].how = "fail"

\* C7: in create's callable, when the implementation throws and the handler
\* returns a promise, the invocation throws the onError contract violation;
\* the spy is not reached.
C7_HandlerPromiseInSyncContext ==
    \A inv \in Live :
        \A h \in Evs(inv, "handler") :
            (/\ KindOf(inv) = "sync"
             /\ h > 1
             /\ inv.log[h - 1].how = "throw"
             /\ inv.log[h].how \in {"pres", "prej"})
                => /\ inv.pc = "done"
                   /\ inv.delivery = "throw"
                   /\ inv.error = HandlerPromiseError
                   /\ Evs(inv, "spy") = {}

C7_Witness ==
    /\ last.pc = "done"
    /\ KindOf(last) = "sync"
    /\ fns[last.c].spyFn = "spy"
    /\ last.error = HandlerPromiseError
    /\ \E h \in Evs(last, "handler") : last.log[h].how = "pres"

\* C8: in create's callable, on an invocation whose implementation returned
\* a plain value or threw (and was recovered), a spy returning a promise
\* makes the invocation throw the spy contract violation.
C8_SpyPromiseInSyncContext ==
    \A inv \in Live :
        \A s \in Evs(inv, "spy") :
            (/\ KindOf(inv) = "sync"
             /\ ~ImplGavePromise(inv)
             /\ inv.log[s].how \in {"pres", "prej"})
                => /\ inv.pc = "done"
                   /\ inv.delivery = "throw"
                   /\ inv.error = SpyPromiseError

C8_Witness ==
    /\ last.pc = "done"
    /\ KindOf(last) = "sync"
    /\ last.error = SpyPromiseError
    /\ \E h \in Evs(last, "handler") : last.log[h].how = "ret"
    /\ \E s \in Evs(last, "spy") : last.log[s].how = "pres"

\* The synchronous parse of the schema met a promise at this log entry.
Escalated(e) ==
    /\ e.ev \in {"argval", "retval"}
    /\ e.fn \in SchemaKinds
    /\ Parse(e.fn, e.in).error = ZodAsyncError

\* C9 as stated: in create's callable a schema (argument or return) whose
\* synchronous parse escalates fails the invocation with the fixed message,
\* the implementation not having been invoked.
C9_Original ==
    \A inv \in Live :
        \A i \in 1..Len(inv.log) :
            (KindOf(inv) = "sync" /\ Escalated(inv.log[i]))
                => /\ Failed(inv)
                   /\ inv.error = ZodFnError(EscalationMessage)
                   /\ Evs(inv, "impl") = {}

\* C9 amended: an escalating argument schema makes create's callable throw
\* the fixed message before the implementation is invoked; an escalating
\* return schema fails the invocation with the same message after the
\* implementation has run (thrown, or a rejection when the implementation
\* returned a promise) and before the spy.
C9_EscalationFailsInvocation ==
    \A inv \in Live :
        \A i \in 1..Len(inv.log) :
            (KindOf(inv) = "sync" /\ Escalated(inv.log[i]))
                => /\ i = Len(inv.log)
                   /\ Failed(inv)
                   /\ inv.error = ZodFnError(EscalationMessage)
                   /\ Evs(inv, "spy") = {}
                   /\ inv.log[i].ev = "argval"
                          => Evs(inv, "impl") = {} /\ inv.delivery = "throw"
                   /\ inv.log[i].ev = "retval"
                          => /\ Evs(inv, "impl") # {}
                             /\ inv.delivery =
                                   IF ImplGavePromise(inv) THEN "reject" ELSE "throw"

C9_Witness ==
    /\ Failed(last)
    /\ KindOf(last) = "sync"
    /\ last.error = ZodFnError(EscalationMessage)
    /\ \E i \in Evs(last, "argval") : Escalated(last.log[i]) /\ i = 2
    /\ Evs(last, "impl") = {}

\* C10: no step changes the schemas that the invocations of an existing
\* callable validate against (args(), returns() on the builder it was made
\* from included).
C10_Original ==
    [][\A c \in 1..Len(fns) : heap'[fns[c].builder] = heap[fns[c].builder]]_vars

\* The specifications that note their calls: what the noted call was.
Noted(op) == hist.op = op
NotedOn(op, recv) == hist.op = op /\ hist.recv = recv
\* The callables and builders that existed before the noted call.
OldCallables == 1..Len(hist.fns)
OldBuilders == 1..Len(hist.heap)

\* C11: every args(), returns() and build() call returns a builder distinct
\* from its receiver and leaves the receiver's configuration as it was.
C11_Original ==
    (/\ hist.op \in {"args", "returns", "build"}
     /\ last.pc = "api" /\ last.delivery = "return")
        => /\ last.res.obj = "builder"
           /\ last.res # hist.recv
           /\ hist.recv.id # 0 => heap[hist.recv.id] = hist.heap[hist.recv.id]

\* The implementation callable c is to run after the noted call.
ExecFnAfter(c) ==
    IF NotedOn("mock", Callable(c)) /\ IsFunction(hist.arg) THEN hist.arg
    ELSE IF NotedOn("resetMock", Callable(c)) THEN "og"
    ELSE hist.fns[c].execFn

\* C13: a callable starts with the implementation given to create or
\* createAsync; mock(m) makes m the implementation, resetMock() restores the
\* original whatever was installed, nothing else changes it; and an
\* invocation runs the implementation in place when it is made.
C13_MockedImplementation ==
    /\ \A c \in OldCallables : fns[c].execFn = ExecFnAfter(c)
    /\ \A c \in 1..Len(fns) : c \notin OldCallables => fns[c].execFn = "og"
    /\ \A inv \in Live :
           \A i \in Evs(inv, "impl") : inv.log[i].fn = hist.fns[inv.c].execFn

C13_Witness ==
    /\ Noted("call")
    /\ last.pc = "done"
    /\ hist.fns[last.c].execFn = "mock2"
    /\ \E i \in Evs(last, "impl") : last.log[i].fn = "mock2"

\* What the noted call does to the spy of callable c: spy(s) installs s,
\* resetSpy() the no-op spy, nothing else replaces it.
SpyFnAfter(c) ==
    IF NotedOn("spy", Callable(c)) /\ IsFunction(hist.arg) THEN hist.arg
    ELSE IF NotedOn("resetSpy", Callable(c)) THEN "noop"
    ELSE hist.fns[c].spyFn
Installed(c) ==
    \/ NotedOn("spy", Callable(c)) /\ IsFunction(hist.arg)
    \/ NotedOn("resetSpy", Callable(c))
Succeeded(inv) == inv.pc = "done" /\ inv.delivery \in {"return", "resolve"}

\* The spy in place is the one the latest spy() or resetSpy() put there, and
\* an invocation passes its spy the counter as it was before, plus one.
SpyGetsNextCount ==
    /\ \A c \in OldCallables : fns[c].spyFn = SpyFnAfter(c)
    /\ \A inv \in Live :
           \A s \in Evs(inv, "spy") :
               /\ inv.log[s].fn = hist.fns[inv.c].spyFn
               /\ inv.log[s].n = hist.fns[inv.c].spyFnCount + 1

\* C14 as stated: the counter is 0 when a spy is installed and counts the
\* invocations that completed successfully since, so that the spy's third
\* argument is that number, counting the invocation it is called in; after
\* resetSpy() the no-op spy is in place.
C14_Original ==
    /\ SpyGetsNextCount
    /\ \A c \in OldCallables : Installed(c) => fns[c].spyFnCount = 0
    /\ (Noted("call") /\ last.pc = "done")
           => fns[last.c].spyFnCount =
                 hist.fns[last.c].spyFnCount + (IF Succeeded(last) THEN 1 ELSE 0)

\* C14 amended: the counter counts the invocations that reached the spy
\* since it was installed, the ones the spy itself then made fail included
\* (by throwing, by rejecting, or by returning a promise to create's
\* synchronous branch).
C14_SpyCountsInvocationsReachingIt ==
    /\ SpyGetsNextCount
    /\ \A c \in OldCallables : Installed(c) => fns[c].spyFnCount = 0
    /\ \A inv \in Live :
           /\ Cardinality(Evs(inv, "spy")) <= 1
           /\ fns[inv.c].spyFnCount =
                 hist.fns[inv.c].spyFnCount + Cardinality(Evs(inv, "spy"))

C14_Witness ==
    /\ Noted("call")
    /\ last.pc = "done"
    /\ hist.fns[last.c].spyFn = "spy"
    /\ hist.fns[last.c].spyFnCount = 1
    /\ fns[last.c].spyFnCount = 2
    /\ \E s \in Evs(last, "spy") : last.log[s].n = 2 /\ last.log[s].how = "throw"

\* C15: a spy(fn) call that passes its check and every resetSpy() call leave
\* the counter at 0 whatever it was; no other call of the API changes it,
\* nor does an invocation that does not reach the spy; and an invocation
\* that reaches the spy with the counter at 0 passes it 1.
C15_SpyReplacementResetsCounter ==
    /\ \A c \in OldCallables :
           /\ Installed(c) => fns[c].spyFnCount = 0
           /\ (~Installed(c) /\ ~Noted("call"))
                  => fns[c].spyFnCount = hist.fns[c].spyFnCount
    /\ \A inv \in Live :
           /\ Evs(inv, "spy") = {} => fns[inv.c].spyFnCount = hist.fns[inv.c].spyFnCount
           /\ hist.fns[inv.c].spyFnCount = 0
                  => \A s \in Evs(inv, "spy") : inv.log[s].n = 1

C15_Witness ==
    /\ Noted("spy") /\ IsFunction(hist.arg)
    /\ last.pc = "api" /\ last.delivery = "return"
    /\ hist.fns[hist.recv.id].spyFn = "noop"
    /\ hist.fns[hist.recv.id].spyFnCount > 1
    /\ fns[hist.recv.id].spyFn = "spy"
    /\ fns[hist.recv.id].spyFnCount = 0

\* The stages before the spy went well: every validation in the log
\* succeeded, and the implementation returned or the handler recovered.
ReachedSpyCleanly(inv, s) ==
    /\ \A i \in 1..(s - 1) :
           /\ inv.log[i].ev \in {"argval", "retval"} => inv.log[i].how = "ok"
           /\ inv.log[i].ev = "handler" => inv.log[i].how \in {"ret", "pres"}
           /\ inv.log[i].ev = "impl"
                  => \/ inv.log[i].how \in {"ret", "pres"}
                     \/ i + 1 < s /\ inv.log[i + 1].ev = "handler"
    /\ Evs(inv, "impl") # {}
    /\ s > 1 /\ inv.log[s - 1].ev = "retval"
    /\ Len(inv.parsedArgs) = Len(inv.args)

\* The invocation has ended at a stage before the spy.
FailedBeforeSpy(inv) ==
    /\ Failed(inv)
    /\ inv.log # <<>> => inv.log[Len(inv.log)].ev # "spy"

\* C16: the spy is called, and the counter incremented, only once argument
\* validation, the implementation (or the handler, after it failed) and
\* return validation have succeeded; an invocation that fails before that
\* does not call the spy and leaves the counter as it was.
C16_SpyOnlyAfterSuccess ==
    \A inv \in Live :
        /\ \A s \in Evs(inv, "spy") : ReachedSpyCleanly(inv, s)
        /\ fns[inv.c].spyFnCount # hist.fns[inv.c].spyFnCount => Evs(inv, "spy") # {}
        /\ FailedBeforeSpy(inv)
               => /\ Evs(inv, "spy") = {}
                  /\ fns[inv.c].spyFnCount = hist.fns[inv.c].spyFnCount

C16_Witness ==
    /\ Noted("call")
    /\ Failed(last)
    /\ last.error = HandlerPromiseError
    /\ fns[last.c].spyFn = "spy"
    /\ hist.fns[last.c].spyFnCount = 1
    /\ fns[last.c].spyFnCount = 1
    /\ Evs(last, "spy") = {}

\* The noted call was a method of a callable's instrumentation.
Mutators == {"mock", "resetMock", "spy", "resetSpy", "onError"}
TakesFunction == {"mock", "spy", "onError"}
MutatorReturned == hist.op \in Mutators /\ last.pc = "api" /\ last.delivery = "return"
MutatorRejected ==
    hist.op \in TakesFunction /\ last.pc = "api" /\ ~IsFunction(hist.arg)

\* The fields of the options record a method may assign.
Slots(op) ==
    IF op \in {"mock", "resetMock"} THEN {"execFn"}
    ELSE IF op \in {"spy", "resetSpy"} THEN {"spyFn", "spyFnCount"}
    ELSE {"onErrorFn"}

\* C17: a mutator whose argument passes returns the callable it was called
\* on, puts its argument in its own slot and leaves every other field of the
\* options record as it was.
C17_MutatorsChangeOwnSlot ==
    MutatorReturned
        => LET c == hist.recv.id
           IN  /\ last.res = hist.recv
               /\ \A field \in DOMAIN fns[c] :
                      field \notin Slots(hist.op) => fns[c][field] = hist.fns[c][field]
               /\ Noted("mock") => fns[c].execFn = hist.arg
               /\ Noted("spy") => fns[c].spyFn = hist.arg
               /\ Noted("onError") => fns[c].onErrorFn = hist.arg

C17_Witness ==
    /\ Noted("onError") /\ MutatorReturned
    /\ hist.fns[hist.recv.id].onErrorFn = "default"
    /\ fns[hist.recv.id].execFn = "mock"
    /\ fns[hist.recv.id].spyFn = "spy"
    /\ fns[hist.recv.id].spyFnCount = 1
    /\ fns[hist.recv.id].onErrorFn = "handler"

\* C18: mock, spy and onError called with no argument or with a value that
\* is not a function throw a ZodFnError and leave the options of every
\* callable as they were, the counter included.
C18_RejectedMutatorChangesNothing ==
    (hist.op \in TakesFunction /\ ~IsFunction(hist.arg))
        => /\ last.pc = "api"
           /\ last.delivery = "throw"
           /\ last.error.name = "ZodFnError"
           /\ last.recv = hist.recv
           /\ fns = hist.fns

C18_Witness ==
    /\ Noted("spy") /\ MutatorRejected
    /\ hist.arg = NotAFunction
    /\ last.error = ZodFnError(Text(<<"Spy handler must be a function">>))
    /\ fns[hist.recv.id].spyFn = "spy"
    /\ fns[hist.recv.id].spyFnCount = 1

\* The noted call was a builder method that returned; the configuration its
\* receiver had before it (the root has none: a call on it starts empty).
BuilderMethodReturned(op) == Noted(op) /\ last.pc = "api" /\ last.delivery = "return"
Prior ==
    IF hist.recv.id = 0 THEN EmptySchemas(TRUE) ELSE hist.heap[hist.recv.id]

\* C19: args(t1..tm) leaves exactly t1..tm as the argument schemas, whatever
\* list was set before, and returns(r) leaves r as the return schema; each
\* leaves the other part alone.  An invocation validates the positions the
\* list in force has and passes the values at later positions on as given.
C19_ArgsReplacesWholeList ==
    /\ BuilderMethodReturned("args")
           => /\ heap[last.res.id].args = hist.arg
              /\ \A i \in 1..(Len(Prior.args) + 1) :
                     i > Len(hist.arg) => SchemaAt(last.res.id, i) = NoSchema
              /\ heap[last.res.id].ret = Prior.ret
    /\ BuilderMethodReturned("returns")
           => /\ heap[last.res.id].ret = hist.arg
              /\ heap[last.res.id].args = Prior.args
    /\ Noted("call")
           => \A inv \in Live :
                  \A i \in 1..Len(inv.parsedArgs) :
                      LET schema == SchemaAt(fns[inv.c].builder, i)
                          vals == {j \in Evs(inv, "argval") : inv.log[j].n = i}
                      IN  IF schema = NoSchema
                          THEN vals = {} /\ inv.parsedArgs[i] = inv.args[i]
                          ELSE \E j \in vals :
                                   /\ inv.log[j].fn = schema
                                   /\ inv.log[j].out = inv.parsedArgs[i]

C19_Witness ==
    /\ BuilderMethodReturned("args")
    /\ hist.recv.id # 0
    /\ Len(Prior.args) = 2
    /\ Prior.ret # NoSchema
    /\ Len(hist.arg) = 1
    /\ heap[last.res.id].args = hist.arg
    /\ SchemaAt(last.res.id, 2) = NoSchema

\* C20: build(configurator) sets the argument list when the result has args
\* and the return schema when it has returns, and leaves in force what the
\* result does not name; an empty result changes nothing.
C20_BuildChangesPresentKeys ==
    BuilderMethodReturned("build")
        => LET result == hist.arg
               now == heap[last.res.id]
           IN  /\ now.args = IF "args" \in result.has THEN result.args ELSE Prior.args
               /\ now.ret = IF "returns" \in result.has THEN result.returns ELSE Prior.ret
               /\ result.has = {} => now.args = Prior.args /\ now.ret = Prior.ret
               /\ \A b \in OldBuilders : b # last.res.id => heap[b] = hist.heap[b]

C20_Witness ==
    /\ BuilderMethodReturned("build")
    /\ hist.arg.has = {"returns"}
    /\ Prior.args = <<"num", "asyncT">>
    /\ Prior.ret = "inc"
    /\ heap[last.res.id].args = <<"num", "asyncT">>
    /\ heap[last.res.id].ret = "asyncT"

\* The options with which getExecFn starts a callable.
Fresh(o) ==
    o.execFn = "og" /\ o.spyFn = "noop" /\ o.spyFnCount = 0 /\ o.onErrorFn = "default"

\* C12: create and createAsync give the callable they make options of its
\* own; a method called on one callable, or an invocation of it, leaves the
\* options of every other callable as they were, and an invocation uses the
\* implementation, handler, spy and counter of the callable invoked.
C12_OptionsPerCallable ==
    /\ \A c \in 1..Len(fns) : c \notin OldCallables => Fresh(fns[c])
    /\ \A d \in OldCallables : hist.recv # Callable(d) => fns[d] = hist.fns[d]
    /\ Noted("call")
           => \A inv \in Live :
                  LET own == hist.fns[inv.c]
                  IN  /\ hist.recv = Callable(inv.c)
                      /\ \A i \in Evs(inv, "impl") : inv.log[i].fn = own.execFn
                      /\ \A i \in Evs(inv, "handler") : inv.log[i].fn = own.onErrorFn
                      /\ \A i \in Evs(inv, "spy") :
                             /\ inv.log[i].fn = own.spyFn
                             /\ inv.log[i].n = own.spyFnCount + 1

C12_Witness ==
    /\ Len(fns) = 2
    /\ fns[1].builder = fns[2].builder /\ fns[1].kind = fns[2].kind
    /\ fns[1].execFn = "mock" /\ fns[1].spyFn = "spy" /\ fns[1].onErrorFn = "handler"
    /\ fns[1].spyFnCount = 1
    /\ NotedOn("call", Callable(2)) /\ last.pc = "done"
    /\ Fresh(hist.fns[2])
    /\ \E i \in Evs(last, "impl") : last.log[i].fn = "og" /\ last.log[i].how = "throw"
    /\ \E i \in Evs(last, "handler") : last.log[i].fn = "default"

\* The ordinal of the first positions, as English writes it.
Ordinal(i) ==
    CASE i = 1 -> <<"1", "st">>
      [] i = 2 -> <<"2", "nd">>
      [] i = 3 -> <<"3", "rd">>
      [] OTHER -> <<"4", "th">>

\* The positions of a list given to args() that have no callable parseAsync.
NotSchemas(l) == {i \in 1..Len(l) : ~HasParseAsync(l[i])}

\* C21: args() with no schema throws "Argument schemas not provided"; with a
\* value that is not a schema it throws the ZodFnError that names the
\* smallest such position, 1-based and with its ordinal suffix; and it
\* returns (having set the list) only when every value is a schema.
C21_ArgsNamesFirstBadPosition ==
    Noted("args") =>
        LET l == hist.arg
            bad == NotSchemas(l)
        IN  IF l = <<>>
            THEN last = Threw(hist.recv, <<"Argument schemas not provided">>)
            ELSE IF bad # {}
            THEN \E i \in bad :
                   /\ \A j \in bad : i <= j
                   /\ last = Threw(hist.recv,
                                   Ordinal(i) \o <<" argument must be a valid Zod schema">>)
            ELSE /\ last.delivery = "return"
                 /\ heap[last.res.id].args = l

C21_Witness ==
    /\ Noted("args")
    /\ hist.arg = <<NotASchema, "num", NotASchema>>
    /\ last = Threw(hist.recv, <<"1", "st", " argument must be a valid Zod schema">>)
    /\ heap = hist.heap

\* C22: args() and returns() take a value for a schema exactly when it has a
\* callable parseAsync member: an object with parse only is rejected, an
\* object with parseAsync only is accepted and set.
C22_SchemaIffParseAsync ==
    /\ (Noted("args") /\ hist.arg # <<>>)
           => /\ last.delivery = "return" <=> \A i \in 1..Len(hist.arg) : HasParseAsync(hist.arg[i])
              /\ \A i \in 1..Len(hist.arg) :
                     (hist.arg[i] = ParseOnly /\ \A j \in 1..(i - 1) : hist.arg[j] \in SchemaKinds)
                         => last = Threw(hist.recv,
                                Ordinal(i) \o <<" argument must be a valid Zod schema">>)
    /\ (Noted("returns") /\ hist.arg # NoSchema)
           => /\ last.delivery = "return" <=> HasParseAsync(hist.arg)
              /\ hist.arg = ParseOnly
                     => last = Threw(hist.recv, <<"Return value must be a valid Zod schema">>)
              /\ hist.arg = ParseAsyncOnly
                     => heap[last.res.id].ret = ParseAsyncOnly

C22_Witness ==
    /\ Noted("args")
    /\ hist.arg = <<ParseAsyncOnly>>
    /\ last.delivery = "return"
    /\ heap[last.res.id].args = <<ParseAsyncOnly>>
    /\ heap[last.res.id].ret = ParseAsyncOnly

\* C25: for every position n of 1..MaxPosition the suffix written after n is
\* "th" when n mod 100 is 11, 12 or 13, and otherwise "st", "nd", "rd" for
\* the last digits 1, 2, 3 and "th" for every other last digit.
C25_OrdinalSuffix ==
    Noted("args") =>
        LET n == Len(hist.arg)
            suffix ==
                IF n % 100 \in {11, 12, 13} THEN "th"
                ELSE IF n % 10 = 1 THEN "st"
                ELSE IF n % 10 = 2 THEN "nd"
                ELSE IF n % 10 = 3 THEN "rd"
                ELSE "th"
            said == last.error.message.text
        IN  /\ last = Threw(hist.recv,
                            NumStr(n) \o <<suffix, " argument must be a valid Zod schema">>)
            /\ n = 4 => SubSeq(said, 1, 2) = <<"4", "th">>
            /\ n = 12 => SubSeq(said, 1, 3) = <<"1", "2", "th">>
            /\ n = 21 => SubSeq(said, 1, 3) = <<"2", "1", "st">>
            /\ n = 112 => SubSeq(said, 1, 4) = <<"1", "1", "2", "th">>

C25_Witness ==
    /\ Noted("args")
    /\ Len(hist.arg) = 111
    /\ last.delivery = "throw"
    /\ last.error.message.text = <<"1", "1", "1", "th", " argument must be a valid Zod schema">>

\* The error the schema of a validation entry gave the callable, before
\* throwError made the ZodFnError of it.
RawError(inv, e) ==
    (IF KindOf(inv) = "async" THEN ParseAsync(e.fn, e.in) ELSE Parse(e.fn, e.in)).error
\* The schema ran and rejected the value, with an issue list or otherwise.
Rejected(inv, e) == e.how = "fail" /\ RawError(inv, e) \in {ZodError, PlainError}
HasIssue(m) == m.json /\ m.issues # <<>> /\ m.issues[1].message # <<>>
Begins(m, prefix) ==
    /\ ~m.json
    /\ Len(m.text) >= Len(prefix)
    /\ SubSeq(m.text, 1, Len(prefix)) = prefix
\* error.message?.replace("parseAsync()", "createAsync()")
Forwarded(m) ==
    IF m.json THEN m
    ELSE Text([i \in 1..Len(m.text) |->
                  IF m.text[i] = "parseAsync()" THEN "createAsync()" ELSE m.text[i]])
ArgPrefix(i) == <<"Validation failed for ">> \o Ordinal(i) \o <<" argument">>

\* C23 as stated: in both kinds of callable a value the schema of position i
\* rejects fails the invocation with a message that begins
\* "Validation failed for <i><suffix> argument".
C23_Original ==
    \A inv \in Live :
        \A a \in Evs(inv, "argval") :
            Rejected(inv, inv.log[a])
                => /\ Failed(inv)
                   /\ Begins(inv.error.message, ArgPrefix(inv.log[a].n))

\* C23 amended: the message begins so when the schema rejects the value with
\* an error whose message is a JSON issue list with a first message, as
\* Zod's is; the message of any other error is forwarded as it is.
C23_ArgumentFailureNamesPosition ==
    \A inv \in Live :
        \A a \in Evs(inv, "argval") :
            Rejected(inv, inv.log[a])
                => /\ Failed(inv)
                   /\ inv.error.name = "ZodFnError"
                   /\ IF HasIssue(RawError(inv, inv.log[a]).message)
                      THEN Begins(inv.error.message, ArgPrefix(inv.log[a].n))
                      ELSE inv.error.message = Forwarded(RawError(inv, inv.log[a]).message)

C23_Witness ==
    /\ Failed(last)
    /\ KindOf(last) = "sync"
    /\ last.args = <<Num(1), Num(1), Num(0)>>
    /\ \E a \in Evs(last, "argval") : last.log[a].n = 3 /\ last.log[a].fn = "num"
    /\ last.error.message =
           Text(<<"Validation failed for ", "3", "rd", " argument", " - ", "Invalid input">>)

\* C24 as stated: in both kinds of callable every failure of the return
\* schema fails the invocation with a message that begins
\* "Validation failed for return value".
C24_Original ==
    \A inv \in Live :
        \A r \in Evs(inv, "retval") :
            inv.log[r].how = "fail"
                => /\ Failed(inv)
                   /\ Begins(inv.error.message, <<"Validation failed for return value">>)

\* C24 amended: the message begins so when the return schema fails with an
\* error whose message is a JSON issue list with a first message; a failure
\* with any other message (the synchronous parse that meets a promise under
\* create, an error of a validator that is not Zod's) has that message,
\* "parseAsync()" replaced by "createAsync()".
C24_ReturnFailureIsLabelled ==
    \A inv \in Live :
        \A r \in Evs(inv, "retval") :
            inv.log[r].how = "fail"
                => /\ Failed(inv)
                   /\ inv.error.name = "ZodFnError"
                   /\ IF HasIssue(RawError(inv, inv.log[r]).message)
                      THEN Begins(inv.error.message, <<"Validation failed for return value">>)
                      ELSE inv.error.message = Forwarded(RawError(inv, inv.log[r]).message)

C24_Witness ==
    /\ Failed(last)
    /\ KindOf(last) = "async"
    /\ \E i \in Evs(last, "impl") : last.log[i].how = "pres" /\ last.log[i].out = Num(0)
    /\ \E r \in Evs(last, "retval") : last.log[r].fn = "asyncT"
    /\ last.error.message =
           Text(<<"Validation failed for return value", " - ", "Invalid input">>)

ValidationFailures(inv) ==
    {i \in 1..Len(inv.log) : inv.log[i].ev \in {"argval", "retval"} /\ inv.log[i].how = "fail"}

\* C30 as stated: a validation error, of an argument or of the return
\* value, is thrown by the invocation in create's callable and rejects the
\* returned promise in createAsync's.
C30_Original ==
    \A inv \in Live :
        \A i \in ValidationFailures(inv) :
            /\ inv.pc = "done"
            /\ inv.delivery = IF KindOf(inv) = "sync" THEN "throw" ELSE "reject"

\* C30 amended: so it is, except that in create's callable, once the
\* implementation has returned a promise, the error of return validation
\* rejects the promise the invocation returned.
C30_ValidationErrorDelivery ==
    \A inv \in Live :
        \A i \in ValidationFailures(inv) :
            /\ inv.pc = "done"
            /\ inv.delivery =
                   IF KindOf(inv) = "async" THEN "reject"
                   ELSE IF inv.log[i].ev = "retval" /\ ImplGavePromise(inv) THEN "reject"
                   ELSE "throw"

C30_Witness ==
    /\ last.pc = "done"
    /\ KindOf(last) = "sync"
    /\ last.delivery = "reject"
    /\ \E i \in Evs(last, "impl") : last.log[i].how = "pres"
    /\ \E r \in Evs(last, "retval") : last.log[r].how = "fail" /\ last.log[r].fn = "num"
    /\ Begins(last.error.message, <<"Validation failed for return value">>)

\* In create's callable with no promise from the implementation: the log
\* entry is a contract violation, and ViolationError is what it raises.
SyncContext(inv) == KindOf(inv) = "sync" /\ ~ImplGavePromise(inv)
LeakedPromise(inv, i) ==
    /\ SyncContext(inv)
    /\ inv.log[i].ev \in {"handler", "spy"}
    /\ inv.log[i].how \in {"pres", "prej"}
Violation(inv, i) ==
    \/ KindOf(inv) = "sync" /\ Escalated(inv.log[i])
    \/ LeakedPromise(inv, i)
ViolationError(e) ==
    IF e.ev = "handler" THEN HandlerPromiseError
    ELSE IF e.ev = "spy" THEN SpyPromiseError
    ELSE ZodFnError(EscalationMessage)

\* C28: a contract violation (an argument or return schema that escalates
\* under create, a handler or a spy that returns a promise in the
\* synchronous context) ends the invocation there with the violation's own
\* error: the error handler is not invoked on it.
C28_ViolationBypassesHandler ==
    \A inv \in Live :
        \A i \in 1..Len(inv.log) :
            Violation(inv, i)
                => /\ Failed(inv)
                   /\ i = Len(inv.log)
                   /\ \A h \in Evs(inv, "handler") : h <= i /\ inv.log[h].errIn # inv.error
                   /\ inv.error = ViolationError(inv.log[i])

C28_Witness ==
    /\ Failed(last)
    /\ fns[last.c].onErrorFn = "handler"
    /\ last.error = SpyPromiseError
    /\ \E h \in Evs(last, "handler") : last.log[h].how = "ret"
    /\ \E s \in Evs(last, "spy") : s = Len(last.log) /\ last.log[s].how = "prej"

\* C29 as stated: every contract violation of create's callable is thrown
\* by the invocation, none rejects a returned promise, and the promise the
\* handler or the spy leaked has a rejection handler attached.
C29_Original ==
    \A inv \in Live :
        \A i \in 1..Len(inv.log) :
            Violation(inv, i)
                => /\ inv.pc = "done"
                   /\ inv.delivery = "throw"
                   /\ LeakedPromise(inv, i)
                          => inv.leaked = <<[from |-> inv.log[i].ev, how |-> inv.log[i].how,
                                             caught |-> TRUE]>>

\* C29 amended: so it is, except that a return schema that escalates once
\* the implementation has returned a promise rejects the promise the
\* invocation returned.
C29_ViolationDelivery ==
    \A inv \in Live :
        \A i \in 1..Len(inv.log) :
            Violation(inv, i)
                => /\ inv.pc = "done"
                   /\ inv.delivery =
                          IF inv.log[i].ev = "retval" /\ ImplGavePromise(inv)
                          THEN "reject" ELSE "throw"
                   /\ LeakedPromise(inv, i)
                          => inv.leaked = <<[from |-> inv.log[i].ev, how |-> inv.log[i].how,
                                             caught |-> TRUE]>>
                   /\ ~LeakedPromise(inv, i) => inv.leaked = <<>>

C29_Witness ==
    /\ last.pc = "done"
    /\ KindOf(last) = "sync"
    /\ last.delivery = "throw"
    /\ last.error = HandlerPromiseError
    /\ last.leaked = <<[from |-> "handler", how |-> "prej", caught |-> TRUE]>>

\* The counter the spy of an invocation was given (0 when it has not been called).
SpyCounter(inv) ==
    IF Evs(inv, "spy") = {} THEN 0 ELSE inv.log[CHOOSE i \in Evs(inv, "spy") : TRUE].n
ReachedSpy(inv) == Evs(inv, "spy") # {}
\* Invocation k, as the step leaves it: still in flight, or completed.
After(k) == IF Len(calls') = Len(calls) THEN calls'[k] ELSE last'
\* The step is the call of the spy in invocation k.
Without(k) == [j \in 1..(Len(calls) - 1) |-> IF j < k THEN calls[j] ELSE calls[j + 1]]
SpyCalledIn(k) ==
    /\ calls[k].pc = "spy"
    /\ Len(calls') = Len(calls) \/ calls' = Without(k)
    /\ After(k).c = calls[k].c
    /\ Len(After(k).log) = Len(calls[k].log) + 1
    /\ SubSeq(After(k).log, 1, Len(calls[k].log)) = calls[k].log
    /\ After(k).log[Len(After(k).log)].ev = "spy"

\* C26: of the invocations of one callable in flight together, the one that
\* reaches the spy stage later is given the higher counter, whichever was
\* started first: at each call of the spy the counter given is above the
\* counter of every invocation whose spy was called before, and every
\* invocation that has yet to reach the stage will be given a higher one.
C26_CounterFollowsSpyOrder ==
    [][\A k \in DOMAIN calls :
         SpyCalledIn(k)
             => /\ SpyCounter(After(k)) = fns'[calls[k].c].spyFnCount
                /\ \A j \in DOMAIN calls \ {k} :
                       calls[j].c = calls[k].c
                           => IF ReachedSpy(calls[j])
                              THEN SpyCounter(calls[j]) < SpyCounter(After(k))
                              ELSE fns'[calls[j].c].spyFnCount + 1 > SpyCounter(After(k))]_vars

\* Two invocations in flight, the first started given 2 by the spy and the
\* second started given 1.
C26_Witness ==
    /\ Len(calls) = 2
    /\ calls[1].c = calls[2].c
    /\ hist.calls = <<[calls[1] EXCEPT !.log = SubSeq(@, 1, 1), !.pc = "retval"]>>
    /\ SpyCounter(calls[1]) = 2
    /\ SpyCounter(calls[2]) = 1

\* The log entries an invocation has made since the noted call.
Since(inv) == {i \in 1..Len(inv.log) : i > Len(hist.calls[1].log)}
\* The invocation that was in flight at the noted call, as it is now.
InFlightNow == IF calls # <<>> THEN calls[1] ELSE last

C40_Original ==
    (/\ hist.op \in {"args", "returns", "build"}
     /\ last.pc = "api" /\ last.delivery = "throw")
        => /\ Len(heap) = Len(hist.heap)
           /\ hist.recv.id # 0 => heap[hist.recv.id] = hist.heap[hist.recv.id]

\* The configuration of a builder object.
Config(schemas) == [args |-> schemas.args, ret |-> schemas.ret]
Bare == [args |-> <<>>, ret |-> NoSchema]
\* What one successful call leaves in an object that had no configuration.
FirstConfig ==
    IF Noted("args") THEN [Bare EXCEPT !.args = hist.arg]
    ELSE IF Noted("returns") THEN [Bare EXCEPT !.ret = hist.arg]
    ELSE IF Noted("build") THEN [args |-> hist.arg.args, ret |-> hist.arg.returns]
    ELSE Bare

\* C39: zfn has no configuration of its own.  A call on zfn touches no
\* object made before it and, when it returns, has made a new object that
\* holds what this call alone configured: nothing for create and
\* createAsync, whose callable validates no argument and no return value
\* whatever is called afterwards.  A call on a derived builder touches no
\* other object, so two builders made from zfn share nothing.
C39_RootStaysBare ==
    /\ hist.op \in {"args", "returns", "build", "create"}
           => /\ \A b \in OldBuilders : b # hist.recv.id => heap[b] = hist.heap[b]
              /\ (hist.recv.id = 0 /\ last.delivery = "return")
                     => /\ Len(heap) = Len(hist.heap) + 1
                        /\ Config(heap[Len(heap)]) = FirstConfig
                        /\ last.res.id = IF Noted("create") THEN Len(fns) ELSE Len(heap)
              /\ (hist.recv.id = 0 /\ Noted("create"))
                     => fns[last.res.id].builder = Len(heap)
    /\ \A c \in 1..Len(fns) :
           ~heap[fns[c].builder].pub => Config(heap[fns[c].builder]) = Bare

C39_Witness ==
    /\ NotedOn("create", BuilderObj(0))
    /\ Len(hist.heap) = 2
    /\ hist.heap[1].pub /\ hist.heap[2].pub
    /\ Config(hist.heap[1]) = [args |-> <<"inc">>, ret |-> "asyncT"]
    /\ Config(hist.heap[2]) = [args |-> <<"num">>, ret |-> NoSchema]
    /\ heap[1] = hist.heap[1] /\ heap[2] = hist.heap[2]
    /\ Config(heap[fns[1].builder]) = Bare

\* The schema list the invocation's callable reads, and what the schema at a
\* position gives for a value in that kind of callable.
SchemasOf(inv) == heap[fns[inv.c].builder].args
Parsed(inv, schema, v) ==
    IF KindOf(inv) = "async" THEN ParseAsync(schema, v) ELSE Parse(schema, v)
ArgFailures(inv) == {a \in Evs(inv, "argval") : inv.log[a].how = "fail"}

\* C33: an invocation validates the positions of the arguments passed and no
\* other: each schema call is for a position the call has, on the value
\* given there; the implementation receives as many arguments as were
\* passed, the schema's output where the position has a schema and the value
\* given otherwise; an invocation with fewer arguments than schemas, none
\* of them rejected, reaches the implementation.
C33_ValidatesPassedPositions ==
    \A inv \in Live :
        /\ \A a \in Evs(inv, "argval") :
               /\ inv.log[a].n \in 1..Len(inv.args)
               /\ inv.log[a].n <= Len(SchemasOf(inv))
               /\ inv.log[a].fn = SchemasOf(inv)[inv.log[a].n]
               /\ inv.log[a].in = inv.args[inv.log[a].n]
               /\ \A a2 \in Evs(inv, "argval") : inv.log[a2].n = inv.log[a].n => a2 = a
        /\ \A m \in Evs(inv, "impl") :
               /\ Len(inv.log[m].args) = Len(inv.args)
               /\ \A i \in 1..Len(inv.args) :
                      IF i <= Len(SchemasOf(inv))
                      THEN /\ \E a \in Evs(inv, "argval") : a < m /\ inv.log[a].n = i
                           /\ inv.log[m].args[i] = Parsed(inv, SchemasOf(inv)[i], inv.args[i]).out
                      ELSE inv.log[m].args[i] = inv.args[i]
        /\ (inv.pc = "done" /\ ArgFailures(inv) = {}) => Evs(inv, "impl") # {}

C33_Witness ==
    /\ last.pc = "done"
    /\ SchemasOf(last) = <<"num", "inc", "num">>
    /\ last.args = <<Num(1), Num(1)>>
    /\ Cardinality(Evs(last, "argval")) = 2
    /\ \E m \in Evs(last, "impl") : last.log[m].args = <<Num(1), Num(2)>>

\* C34: arguments are validated in increasing order of position and
\* validation stops at the first position that fails: every position before
\* it passes, the error is that position's, no schema is called after it
\* and neither the implementation nor the handler nor the spy is called.
C34_StopsAtFirstFailingPosition ==
    \A inv \in Live :
        /\ \A a, a2 \in Evs(inv, "argval") : a < a2 => inv.log[a].n < inv.log[a2].n
        /\ \A a \in ArgFailures(inv) :
               LET n == inv.log[a].n
               IN  /\ a = Len(inv.log)
                   /\ Failed(inv)
                   /\ inv.error = inv.log[a].err
                   /\ \A i \in 1..(n - 1) :
                          i <= Len(SchemasOf(inv))
                              => Parsed(inv, SchemasOf(inv)[i], inv.args[i]).ok
                   /\ ~Parsed(inv, SchemasOf(inv)[n], inv.args[n]).ok
                   /\ HasIssue(RawError(inv, inv.log[a]).message)
                          => Begins(inv.error.message, ArgPrefix(n))
                   /\ Evs(inv, "impl") \cup Evs(inv, "handler") \cup Evs(inv, "spy") = {}

C34_Witness ==
    /\ Failed(last)
    /\ KindOf(last) = "async"
    /\ SchemasOf(last) = <<"num", "inc", "num">>
    /\ last.args = <<Num(1), Num(0), Num(0)>>
    /\ Len(last.log) = 2
    /\ Begins(last.error.message, <<"Validation failed for ", "2", "nd", " argument">>)

\* Every schema the invocation called accepted its value and gave it back.
Untransformed(inv) ==
    \A i \in Evs(inv, "argval") \cup Evs(inv, "retval") :
        inv.log[i].how = "ok" /\ inv.log[i].out = inv.log[i].in
DefaultInstrumentation(inv) == Fresh(fns[inv.c])
\* How the bare implementation's outcome leaves a plain function.
Bare_Delivery(how) ==
    CASE how = "ret" -> "return"
      [] how = "throw" -> "throw"
      [] how = "pres" -> "resolve"
      [] OTHER -> "reject"

ValidatedArgs(inv) ==
    [i \in 1..Len(inv.args) |->
        IF \E a \in Evs(inv, "argval") : inv.log[a].n = i
        THEN inv.log[CHOOSE a \in Evs(inv, "argval") : inv.log[a].n = i].out
        ELSE inv.args[i]]

\* C35: the error handler is called with the implementation's error and the
\* validated argument list, the spy with the validated argument list, the
\* validated result and the counter; the list is the one the implementation
\* was called with, the schemas' outputs in call order, not the arguments
\* as they were given.
C35_HandlerAndSpyGetValidatedArgs ==
    \A inv \in Live :
        /\ \A h \in Evs(inv, "handler") :
               /\ inv.log[h].args = ValidatedArgs(inv)
               /\ \E m \in Evs(inv, "impl") :
                      /\ m < h
                      /\ inv.log[m].args = inv.log[h].args
                      /\ inv.log[m].err = inv.log[h].errIn
        /\ \A s \in Evs(inv, "spy") :
               /\ inv.log[s].args = ValidatedArgs(inv)
               /\ \E m \in Evs(inv, "impl") : m < s /\ inv.log[m].args = inv.log[s].args
               /\ \E r \in Evs(inv, "retval") : r < s /\ inv.log[s].in = inv.log[r].out
               /\ inv.log[s].n >= 1

C35_Witness ==
    /\ last.pc = "done"
    /\ last.args = <<Num(1)>>
    /\ \E h \in Evs(last, "handler"), s \in Evs(last, "spy") :
           /\ last.log[h].fn = "handler" /\ last.log[h].args = <<Num(2)>>
           /\ last.log[h].errIn = ImplErr
           /\ last.log[s].fn = "spy" /\ last.log[s].args = <<Num(2)>>
           /\ last.log[s].in = Num(2) /\ last.log[s].n = 1

\* The spy's call failed: it threw, or the promise it returned was rejected
\* where the invocation awaits it.
SpyFailed(inv, s) ==
    /\ inv.log[s].ev = "spy"
    /\ \/ inv.log[s].how = "throw"
       \/ inv.log[s].how = "prej" /\ ~SyncContext(inv)

\* C38: an error thrown by the spy, or the rejection of a promise it
\* returned in an asynchronous branch, is the error the invocation ends
\* with: the error handler is not called on it, the implementation ran
\* before the spy, and the counter was incremented for the invocation.
C38_SpyFailureReachesCaller ==
    \A inv \in Live :
        \A s \in 1..Len(inv.log) :
            SpyFailed(inv, s)
                => /\ Failed(inv)
                   /\ inv.error = inv.log[s].err
                   /\ s = Len(inv.log)
                   /\ \A h \in Evs(inv, "handler") : h < s /\ inv.log[h].errIn # inv.log[s].err
                   /\ \E m \in Evs(inv, "impl") : m < s
                   /\ Noted("call")
                          => /\ inv.log[s].n = hist.fns[inv.c].spyFnCount + 1
                             /\ fns[inv.c].spyFnCount = inv.log[s].n

C38_Witness ==
    /\ Noted("call")
    /\ last.pc = "done"
    /\ KindOf(last) = "async"
    /\ last.delivery = "reject"
    /\ last.error = SpyErr
    /\ \E h \in Evs(last, "handler") : last.log[h].how = "ret"
    /\ \E s \in Evs(last, "spy") : last.log[s].how = "prej" /\ last.log[s].n = 2
    /\ fns[last.c].spyFnCount = 2

\* Entry i of the log is a promise the error handler or the spy returned.
GavePromise(inv, i) ==
    /\ inv.log[i].ev \in {"handler", "spy"}
    /\ inv.log[i].how \in {"pres", "prej"}
\* The promise of entry i was awaited: its resolution is the value return
\* validation is given (handler) or the invocation then delivers its result
\* (spy); its rejection is the error the invocation ends with.
AwaitedPromise(inv, i) ==
    LET e == inv.log[i]
    IN  IF e.how = "prej"
        THEN Failed(inv) /\ inv.error = e.err /\ i = Len(inv.log)
        ELSE IF e.ev = "handler"
        THEN IF i = Len(inv.log)
             THEN inv.pc = "retval" /\ inv.ret = e.out
             ELSE inv.log[i + 1].ev = "retval" /\ inv.log[i + 1].in = e.out
        ELSE /\ i = Len(inv.log)
             /\ inv.pc = "spywait" \/ (Succeeded(inv) /\ inv.ret = e.in)

\* C36: a promise returned by the error handler or by the spy is a contract
\* violation only in create's callable on an invocation whose
\* implementation returned no promise; in createAsync's callable, and in
\* create's once the implementation has returned a promise, the promise is
\* awaited: the handler's resolution is the value return validation is
\* given, and the result is delivered after the spy's promise has settled.
C36_PromiseIsViolationOnlyInSyncContext ==
    \A inv \in Live :
        /\ \A i \in 1..Len(inv.log) :
               GavePromise(inv, i)
                   => IF SyncContext(inv)
                      THEN /\ Failed(inv)
                           /\ inv.error = ViolationError(inv.log[i])
                           /\ i = Len(inv.log)
                      ELSE AwaitedPromise(inv, i)
        /\ inv.error \in {HandlerPromiseError, SpyPromiseError}
               => SyncContext(inv) /\ GavePromise(inv, Len(inv.log))

C36_Witness ==
    /\ last.pc = "done"
    /\ KindOf(last) = "sync"
    /\ ImplGavePromise(last)
    /\ last.delivery = "resolve"
    /\ \E h \in Evs(last, "handler"), r \in Evs(last, "retval"), s \in Evs(last, "spy") :
           /\ last.log[h].how = "pres" /\ last.log[h].out = Num(1)
           /\ r = h + 1 /\ last.log[r].in = Num(1) /\ last.log[r].out = Num(2)
           /\ last.log[s].how = "pres" /\ last.ret = Num(2)

\* The step is a call of an instrumentation method: no invocation moves and
\* no callable is made; the method is the one the step notes.
MethodCalled ==
    /\ calls' = calls /\ heap' = heap
    /\ Len(fns') = Len(fns)
    /\ last'.pc = "api"
\* The counter the spy was given in the step that called it in invocation k.
GivenIn(k) == After(k).log[Len(After(k).log)].n

\* C37: in every interleaving of the invocations of one callable, the
\* counter is 0 after spy() and resetSpy(), a call of the spy is given the
\* counter plus one and leaves that in the counter within the same step, and
\* no other step changes the counter: the value a spy call is given is the
\* number of spy calls since the last spy() or resetSpy(), this one counted.
C37_CounterCountsSpyCalls ==
    [][\A c \in 1..Len(fns) :
           Len(fns') = Len(fns)
               => IF MethodCalled
                  THEN fns'[c].spyFnCount =
                           IF hist'.op \in {"spy", "resetSpy"} THEN 0
                           ELSE fns[c].spyFnCount
                  ELSE IF \E k \in DOMAIN calls : SpyCalledIn(k)
                  THEN \A k \in DOMAIN calls :
                           SpyCalledIn(k)
                               => /\ GivenIn(k) = fns[c].spyFnCount + 1
                                  /\ fns'[c].spyFnCount = GivenIn(k)
                  ELSE fns'[c].spyFnCount = fns[c].spyFnCount]_vars

C37_Witness ==
    /\ Noted("resetSpy")
    /\ Len(hist.calls) = 2
    /\ hist.fns[1].spyFnCount = 1
    /\ last.pc = "done"
    /\ SpyCounter(last) = 1
    /\ fns[1].spyFnCount = 1

\* No stage has run twice in the invocation: one call of the implementation,
\* of the handler, of return validation and of the spy at most, and one
\* validation for an argument position.
EachStageOnce(inv) ==
    /\ \A ev \in {"impl", "handler", "retval", "spy"} : Cardinality(Evs(inv, ev)) <= 1
    /\ \A a, b \in Evs(inv, "argval") : inv.log[a].n = inv.log[b].n => a = b
\* The invocation in flight is suspended at an await with its validated
\* result at hand: the spy stage is what comes next.
SuspendedBeforeSpy ==
    calls # <<>> /\ calls[1].pc = "spy" /\ ~calls[1].running
\* The invocation has ended: a value returned, an error thrown, or the
\* promise it returned settled.
Terminated ==
    /\ calls = <<>>
    /\ last.pc = "done"
    /\ last.delivery \in {"return", "throw", "resolve", "reject"}

\* C32: provided the promises awaited settle, an invocation that was started
\* terminates, no stage having run twice in it; and one that is suspended
\* before the spy stage, while the caller goes on without awaiting it, runs
\* to its end, the counter incremented and the spy called.
C32_InvocationTerminates ==
    /\ [](\A inv \in Live : EachStageOnce(inv))
    /\ (calls # <<>>) ~> Terminated
    /\ SuspendedBeforeSpy
           ~> (Terminated /\ ReachedSpy(last) /\ SpyCounter(last) >= 1)

C32_Witness ==
    /\ Noted("mock")
    /\ hist.calls # <<>>
    /\ ~hist.calls[1].running
    /\ hist.calls[1].pc = "spy"
    /\ Terminated
    /\ last.delivery = "resolve"
    /\ Evs(last, "argval") # {}
    /\ ReachedSpy(last)
    /\ fns[last.c].spyFnCount = 1

====
